---------------------------- MODULE Spec2Model ----------------------------
(***************************************************************************)
(* FrameManager (src/front_end/issues/issues-meta.ts, lines 99-342): the   *)
(* central storage of frames collected from all ResourceTreeModels, one    *)
(* per target.  The registry keeps `frames` (frameId -> {frame, count}),   *)
(* `framesForTarget` (targetId -> Set<frameId>), the cached `topFrame`,    *)
(* `creationStackTraceDataForTransferringFrame` and `awaitedFrames`.       *)
(*                                                                         *)
(* JavaScript Maps and Sets iterate in insertion order, so `frames` and    *)
(* the per-target frame-id sets are modelled as duplicate-free sequences.  *)
(* An optional value (T | null) is a sequence of length at most one.       *)
(***************************************************************************)
EXTENDS Naturals, Integers, Sequences, FiniteSets, TLC

\* ------------------------------------------------------------ bounds ----
\* Number of ResourceTreeFrame objects the targets create in one run.
MaxFrames == 3
\* Number of getOrWaitForFrame calls in one run.
MaxWaiters == 2
\* Number of ResourceTreeFrame objects created in one run of SpecWait.
MaxWaitFrames == 2
\* Number of ResourceTreeFrame objects announced in one run of SpecEvents.
MaxEventFrames == 2
\* Number of getOrWaitForFrame calls in one run of SpecEvents.
MaxEventWaiters == 1
\* Number of FrameManager objects constructed by instance() in one run.
MaxManagers == 2
\* Number of --on-diff flags on one command line.
MaxFlags == 3
\* Number of ScreenCaptureModel objects created in one run.
MaxModels == 3

Ids == {"17", "42"}
Targets == {"main", "oopif"}
Resources == {"res", "img"}
NoTarget == "none"
Null == << >>

Some(v) == << v >>

\* --------------------------------------------------------- variables ----
VARIABLES
  frames,            \* Map<frameId, {frame, count}> in insertion order
  framesForTarget,   \* Map<targetId, Set<frameId>>, each set in insertion order
  topFrame,          \* ResourceTreeFrame | null
  creationStackTraceDataForTransferringFrame,  \* Map<frameId, trace data>
  awaitedFrames,     \* Map<frameId, {notInTarget, resolve}[]>
  eventListeners,    \* the ResourceTreeModels (by target) the manager listens to
  treeModel,         \* each ResourceTreeModel's own frames: target -> id -> frame | null
  nextFrame,         \* number of ResourceTreeFrame objects created so far
  nextWaiter,        \* number of getOrWaitForFrame calls so far
  lastCall,          \* the call that produced this state
  emitted,           \* events dispatched and promises resolved by that call, in order
  calls,             \* per identity: frameAdded calls, frameDetached calls, visits of
                     \* modelRemoved's loop, and FrameRemoved events so far
  lastFor,           \* per identity: the last frameAdded or frameDetached call for it
  delivered,         \* per event dispatched by that call: the registry as its listeners saw it
  resolved,          \* per promise of getOrWaitForFrame: the frames it was resolved with so far
  frameManagerInstance,  \* the module variable: null (0) or the FrameManager object (its number)
  managers,          \* number of FrameManager objects instance() has constructed
  instanceReturned,  \* what the last call of instance() returned (0: none yet)
  diffBehaviors,     \* test_config.ts: asArray(options['on-diff']), the --on-diff flags in order
  TestConfig,        \* test_config.ts: the exported TestConfig (null until the module is loaded)
  appInstance,       \* ScreencastApp: the fields of the app object
  screenCaptureModels,  \* the ScreenCaptureModels the target manager has added and not removed
  nextModel,         \* number of ScreenCaptureModel objects created so far
  appCall            \* ScreencastApp: the last call made on the app object

vars == << frames, framesForTarget, topFrame,
           creationStackTraceDataForTransferringFrame, awaitedFrames,
           eventListeners, treeModel, nextFrame, nextWaiter,
           lastCall, emitted, calls, lastFor,
                  delivered, resolved,
           frameManagerInstance, managers, instanceReturned,
           diffBehaviors, TestConfig, appInstance, screenCaptureModels, nextModel,
           appCall >>

\* The state of the test runner's configuration module and of the
\* ScreencastApp; FrameManager writes neither.
conductor == << diffBehaviors, TestConfig >>

screencast == << appInstance, screenCaptureModels, nextModel, appCall >>

\* The module variable of the singleton and its bookkeeping; no method of a
\* FrameManager object writes it.
singleton == << frameManagerInstance, managers, instanceReturned >>

\* ------------------------------------------------- ResourceTreeFrame ----
\* A frame object: its id, the target of its resourceTreeModel(), the
\* isTopFrame() flag, its creation stack trace (0 is null) with the trace's
\* target, and the identity of the object itself.
NewFrame(id, target, top, hasTrace, oid) ==
  [ id |-> id, target |-> target, top |-> top,
    creationStackTrace |-> IF hasTrace THEN oid ELSE 0,
    creationStackTraceTarget |-> target, oid |-> oid ]

getCreationStackTraceData(frame) ==
  [ creationStackTrace |-> frame.creationStackTrace,
    creationStackTraceTarget |-> frame.creationStackTraceTarget ]

setCreationStackTrace(frame, data) ==
  [ frame EXCEPT !.creationStackTrace = data.creationStackTrace,
                 !.creationStackTraceTarget = data.creationStackTraceTarget ]

isTopFrame(frame) == frame.top

\* ---------------------------------------------- Map / Set primitives ----
MapIndex(m, id) ==
  IF \E i \in 1..Len(m) : m[i].id = id
  THEN CHOOSE i \in 1..Len(m) : m[i].id = id
  ELSE 0

MapHas(m, id) == MapIndex(m, id) # 0

MapGet(m, id) == m[MapIndex(m, id)]

\* Map.set keeps the position of a key that is already present.
MapSet(m, id, frame, count) ==
  LET entry == [ id |-> id, frame |-> frame, count |-> count ]
  IN IF MapHas(m, id)
     THEN [ m EXCEPT ![MapIndex(m, id)] = entry ]
     ELSE Append(m, entry)

MapDelete(m, id) == SelectSeq(m, LAMBDA e : e.id # id)

SetHas(s, id) == \E i \in 1..Len(s) : s[i] = id

SetAdd(s, id) == IF SetHas(s, id) THEN s ELSE Append(s, id)

SetDelete(s, id) == SelectSeq(s, LAMBDA x : x # id)

\* ------------------------------------------------------------ events ----
Event(type, frameId, frame, waiter, resource) ==
  [ type |-> type, frameId |-> frameId, frame |-> frame,
    waiter |-> waiter, resource |-> resource ]

FrameAddedToTarget(frame) == Event("FrameAddedToTarget", frame.id, Some(frame), 0, "")
FrameNavigated(frame) == Event("FrameNavigated", frame.id, Some(frame), 0, "")
TopFrameNavigated(frame) == Event("TopFrameNavigated", frame.id, Some(frame), 0, "")
FrameRemoved(frameId) == Event("FrameRemoved", frameId, Null, 0, "")
ResourceAdded(resource) == Event("ResourceAdded", "", Null, 0, resource)
Resolve(waiter, frame) == Event("resolve", frame.id, Some(frame), waiter, "")

Call(op, target, frameId, isSwap, notInTarget) ==
  [ op |-> op, target |-> target, frameId |-> frameId,
    isSwap |-> isSwap, notInTarget |-> notInTarget, resource |-> "",
    forceNew |-> FALSE ]

\* --------------------------------------------------------- queries ----
getAllFrames(m) == [ i \in 1..Len(m) |-> m[i].frame ]

getFrame(m, frameId) == IF MapHas(m, frameId) THEN Some(MapGet(m, frameId).frame) ELSE Null

\* Mutant of resetTopFrame: looks at the first frame of the registry only.
resetTopFrameFirstOnly(m) ==
  IF Len(m) > 0 /\ isTopFrame(m[1].frame) THEN Some(m[1].frame) ELSE Null

\* Mutant of resetTopFrame: the last frame with isTopFrame() wins.
resetTopFrameLast(m) ==
  LET topFrames == SelectSeq(getAllFrames(m), isTopFrame)
  IN IF Len(topFrames) > 0 THEN Some(topFrames[Len(topFrames)]) ELSE Null

\* resetTopFrame: the first frame of getAllFrames() with isTopFrame(), or null.
resetTopFrame(m) ==
  LET topFrames == SelectSeq(getAllFrames(m), isTopFrame)
  IN IF Len(topFrames) > 0 THEN Some(topFrames[1]) ELSE Null

\* ------------------------------------------- decreaseOrRemoveFrame ----
\* The part of the registry a removal works on: frames, topFrame and the
\* events dispatched so far by the running call.
Reg(m, top, out) == [ frames |-> m, topFrame |-> top, emitted |-> out ]

\* Mutant of decreaseOrRemoveFrame: removes the record whatever its count.
decreaseOrRemoveFrameIgnoringCount(reg, frameId) ==
  IF MapHas(reg.frames, frameId)
  THEN LET m == MapDelete(reg.frames, frameId)
       IN Reg(m, resetTopFrame(m), Append(reg.emitted, FrameRemoved(frameId)))
  ELSE reg

\* Mutant of decreaseOrRemoveFrame: removes the record without the event.
decreaseOrRemoveFrameSilent(reg, frameId) ==
  IF MapHas(reg.frames, frameId)
  THEN LET frameData == MapGet(reg.frames, frameId)
       IN IF frameData.count = 1
          THEN LET m == MapDelete(reg.frames, frameId)
               IN Reg(m, resetTopFrame(m), reg.emitted)
          ELSE Reg(MapSet(reg.frames, frameId, frameData.frame, frameData.count - 1),
                   reg.topFrame, reg.emitted)
  ELSE reg

\* Mutant of decreaseOrRemoveFrame: forgets to call resetTopFrame.
decreaseOrRemoveFrameStaleTop(reg, frameId) ==
  IF MapHas(reg.frames, frameId)
  THEN LET frameData == MapGet(reg.frames, frameId)
       IN IF frameData.count = 1
          THEN Reg(MapDelete(reg.frames, frameId), reg.topFrame,
                   Append(reg.emitted, FrameRemoved(frameId)))
          ELSE Reg(MapSet(reg.frames, frameId, frameData.frame, frameData.count - 1),
                   reg.topFrame, reg.emitted)
  ELSE reg

\* Mutant of decreaseOrRemoveFrame: decrements first and deletes a record
\* only when it finds the count at 0.
decreaseOrRemoveFrameLate(reg, frameId) ==
  IF MapHas(reg.frames, frameId)
  THEN LET frameData == MapGet(reg.frames, frameId)
       IN IF frameData.count = 0
          THEN LET m == MapDelete(reg.frames, frameId)
               IN Reg(m, resetTopFrame(m), Append(reg.emitted, FrameRemoved(frameId)))
          ELSE Reg(MapSet(reg.frames, frameId, frameData.frame, frameData.count - 1),
                   reg.topFrame, reg.emitted)
  ELSE reg

\* Mutant of decreaseOrRemoveFrame: always decrements, also from 1 to 0.
decreaseOrRemoveFrameToZero(reg, frameId) ==
  IF MapHas(reg.frames, frameId)
  THEN LET frameData == MapGet(reg.frames, frameId)
       IN Reg(MapSet(reg.frames, frameId, frameData.frame, frameData.count - 1),
              reg.topFrame, reg.emitted)
  ELSE reg

decreaseOrRemoveFrame(reg, frameId) ==
  IF MapHas(reg.frames, frameId)
  THEN LET frameData == MapGet(reg.frames, frameId)
       IN IF frameData.count = 1
          THEN LET m == MapDelete(reg.frames, frameId)
               IN Reg(m, resetTopFrame(m), Append(reg.emitted, FrameRemoved(frameId)))
          ELSE Reg(MapSet(reg.frames, frameId, frameData.frame, frameData.count - 1),
                   reg.topFrame, reg.emitted)
  ELSE reg

\* Mutant of the loop of modelRemoved: stops after the first identity.
DecreaseFirst(reg, frameSet) ==
  IF frameSet = << >> THEN reg
  ELSE decreaseOrRemoveFrame(reg, Head(frameSet))

\* for (const frameId of frameSet) this.decreaseOrRemoveFrame(frameId)
RECURSIVE DecreaseAll(_, _)
DecreaseAll(reg, frameSet) ==
  IF frameSet = << >> THEN reg
  ELSE DecreaseAll(decreaseOrRemoveFrame(reg, Head(frameSet)), Tail(frameSet))


\* ------------------------------------------------------ frameAdded ----
\* The frame object as frameAdded leaves it: it takes over the creation
\* stack trace of the record it replaces, or the one persisted for a
\* transferring frame when that holds a stack trace.
\* Mutant of frameAddedFrame: copies the trace of the record it replaces only
\* when that record's frame has one.
frameAddedFrameCopyIfSet(frame) ==
  IF MapHas(frames, frame.id)
  THEN IF MapGet(frames, frame.id).frame.creationStackTrace # 0
       THEN setCreationStackTrace(frame,
              getCreationStackTraceData(MapGet(frames, frame.id).frame))
       ELSE frame
  ELSE IF /\ frame.id \in DOMAIN creationStackTraceDataForTransferringFrame
          /\ creationStackTraceDataForTransferringFrame[frame.id].creationStackTrace # 0
       THEN setCreationStackTrace(frame,
              creationStackTraceDataForTransferringFrame[frame.id])
       ELSE frame

frameAddedFrame(frame) ==
  IF MapHas(frames, frame.id)
  THEN setCreationStackTrace(frame,
         getCreationStackTraceData(MapGet(frames, frame.id).frame))
  ELSE IF /\ frame.id \in DOMAIN creationStackTraceDataForTransferringFrame
          /\ creationStackTraceDataForTransferringFrame[frame.id].creationStackTrace # 0
       THEN setCreationStackTrace(frame,
              creationStackTraceDataForTransferringFrame[frame.id])
       ELSE frame

\* Mutant of frameAddedFrames: stores a count of 1 for a present identity too.
frameAddedFramesCountOne(frame) == MapSet(frames, frame.id, frame, 1)

\* Mutant of frameAddedFrames: a present identity keeps its frame object and
\* only has its count raised.
frameAddedFramesKeepFrame(frame) ==
  IF MapHas(frames, frame.id)
  THEN MapSet(frames, frame.id, MapGet(frames, frame.id).frame,
              MapGet(frames, frame.id).count + 1)
  ELSE MapSet(frames, frame.id, frame, 1)

\* this.frames after frameAdded stored `frame`.
frameAddedFrames(frame) ==
  IF MapHas(frames, frame.id)
  THEN MapSet(frames, frame.id, frame, MapGet(frames, frame.id).count + 1)
  ELSE MapSet(frames, frame.id, frame, 1)

\* Mutant of frameAddedTraceData: the persisted trace is never deleted.
frameAddedTraceDataKept(frame) == creationStackTraceDataForTransferringFrame

\* creationStackTraceDataForTransferringFrame after frameAdded.
frameAddedTraceData(frame) ==
  IF MapHas(frames, frame.id)
  THEN creationStackTraceDataForTransferringFrame
  ELSE [ id \in DOMAIN creationStackTraceDataForTransferringFrame \ {frame.id} |->
           creationStackTraceDataForTransferringFrame[id] ]

\* Mutant of frameAddedFramesForTarget: only an identity without a record
\* is entered in the target's frame-id set.
frameAddedFramesForTargetNewOnly(frame) ==
  IF frame.target \in DOMAIN framesForTarget /\ ~MapHas(frames, frame.id)
  THEN [ framesForTarget EXCEPT ![frame.target] = SetAdd(@, frame.id) ]
  ELSE framesForTarget

frameAddedFramesForTarget(frame) ==
  IF frame.target \in DOMAIN framesForTarget
  THEN [ framesForTarget EXCEPT ![frame.target] = SetAdd(@, frame.id) ]
  ELSE framesForTarget

\* ---------------------------------------------- resolveAwaitedFrame ----
\* Mutant of the filter of resolveAwaitedFrame: ignores notInTarget.
ResolvableAlways(waiter, frame) == TRUE

\* The filter of resolveAwaitedFrame: a waiter is resolved (and dropped)
\* unless it excludes the target of the added frame.
Resolvable(waiter, frame) ==
  waiter.notInTarget = NoTarget \/ waiter.notInTarget # frame.target

Waiting(frameId) ==
  IF frameId \in DOMAIN awaitedFrames THEN awaitedFrames[frameId] ELSE << >>

\* Mutant of resolveAwaitedFrameWaiting: deletes the whole waiter list of
\* the identity, also the waiters it did not resolve.
resolveAwaitedFrameWaitingDropAll(frame) ==
  [ id \in DOMAIN awaitedFrames \ {frame.id} |-> awaitedFrames[id] ]

\* Mutant of resolveAwaitedFrameWaiting: the resolved waiters stay listed.
resolveAwaitedFrameWaitingKeepAll(frame) == awaitedFrames

\* this.awaitedFrames after resolveAwaitedFrame(frame).
resolveAwaitedFrameWaiting(frame) ==
  LET newWaiting == SelectSeq(Waiting(frame.id), LAMBDA w : ~Resolvable(w, frame))
  IN IF frame.id \notin DOMAIN awaitedFrames
     THEN awaitedFrames
     ELSE IF Len(newWaiting) > 0
          THEN [ awaitedFrames EXCEPT ![frame.id] = newWaiting ]
          ELSE [ id \in DOMAIN awaitedFrames \ {frame.id} |-> awaitedFrames[id] ]

\* Mutant of resolveAwaitedFrameResolved: walks the waiter list backwards.
resolveAwaitedFrameResolvedBackwards(frame) ==
  LET ws == SelectSeq(Waiting(frame.id), LAMBDA w : Resolvable(w, frame))
  IN [ i \in 1..Len(ws) |-> ws[Len(ws) + 1 - i] ]

\* The resolve(frame) calls of the filter, in the order of the waiter list.
resolveAwaitedFrameResolved(frame) ==
  SelectSeq(Waiting(frame.id), LAMBDA w : Resolvable(w, frame))

ResolveEvents(ws, frame) == [ i \in 1..Len(ws) |-> Resolve(ws[i].waiter, frame) ]

\* ----------------------------------------------------- bookkeeping ----
\* The observer `calls` counts, per identity, the frameAdded calls, the
\* frameDetached calls, the visits by the loop of modelRemoved and the
\* FrameRemoved events; it is kept only by the specification that needs it.
CountRemoved(out, frameId) ==
  Cardinality({ i \in 1..Len(out) : out[i].type = "FrameRemoved" /\ out[i].frameId = frameId })

Counted(out, added, detached, released) ==
  [ id \in Ids |->
      [ added    |-> calls[id].added + (IF id \in added THEN 1 ELSE 0),
        detached |-> calls[id].detached + (IF id \in detached THEN 1 ELSE 0),
        released |-> calls[id].released + (IF id \in released THEN 1 ELSE 0),
        removed  |-> calls[id].removed + CountRemoved(out, id) ] ]

CountCalls(counting, added, detached, released) ==
  IF counting
  THEN calls' = Counted(emitted', added, detached, released)
  ELSE UNCHANGED calls

\* ------------------------------------------------------- handlers ----
\* Mutant of frameAdded: FrameAddedToTarget for a new identity only.
frameAddedEventForNewOnly(raw) ==
  LET frame == frameAddedFrame(raw)
      m == frameAddedFrames(frame)
      ws == resolveAwaitedFrameResolved(frame)
      out == (IF MapHas(frames, frame.id) THEN << >> ELSE << FrameAddedToTarget(frame) >>)
             \o ResolveEvents(ws, frame)
  IN /\ frames' = m
     /\ creationStackTraceDataForTransferringFrame' = frameAddedTraceData(frame)
     /\ topFrame' = resetTopFrame(m)
     /\ framesForTarget' = frameAddedFramesForTarget(frame)
     /\ awaitedFrames' = resolveAwaitedFrameWaiting(frame)
     /\ emitted' = out
     /\ lastCall' = Call("frameAdded", frame.target, frame.id, FALSE, NoTarget)
     /\ UNCHANGED << singleton, conductor, screencast >>
     /\ treeModel' = [ treeModel EXCEPT ![frame.target][frame.id] = Some(frame) ]

\* frameAdded(event), event.data = raw.  The ResourceTreeModel that announced
\* the frame holds the same object, so it sees the trace set on it here.
frameAdded(raw) ==
  LET frame == frameAddedFrame(raw)
      m == frameAddedFrames(frame)
      ws == resolveAwaitedFrameResolved(frame)
      out == << FrameAddedToTarget(frame) >> \o ResolveEvents(ws, frame)
  IN /\ frames' = m
     /\ creationStackTraceDataForTransferringFrame' = frameAddedTraceData(frame)
     /\ topFrame' = resetTopFrame(m)
     /\ framesForTarget' = frameAddedFramesForTarget(frame)
     /\ awaitedFrames' = resolveAwaitedFrameWaiting(frame)
     /\ emitted' = out
     /\ lastCall' = Call("frameAdded", frame.target, frame.id, FALSE, NoTarget)
     /\ UNCHANGED << singleton, conductor, screencast >>
     /\ treeModel' = [ treeModel EXCEPT ![frame.target][frame.id] = Some(frame) ]

\* Mutant of frameDetachedTraceData: persists the trace while the record
\* is still there (the negation of the test dropped).
frameDetachedTraceDataWhilePresent(frame, isSwap, m) ==
  LET traceData == getCreationStackTraceData(frame)
  IN IF isSwap /\ MapHas(m, frame.id) /\ traceData.creationStackTrace # 0
     THEN (frame.id :> traceData) @@ creationStackTraceDataForTransferringFrame
     ELSE creationStackTraceDataForTransferringFrame

\* Mutant of frameDetachedTraceData: persists the trace whatever isSwap is.
frameDetachedTraceDataAnyDetach(frame, isSwap, m) ==
  LET traceData == getCreationStackTraceData(frame)
  IN IF ~MapHas(m, frame.id) /\ traceData.creationStackTrace # 0
     THEN (frame.id :> traceData) @@ creationStackTraceDataForTransferringFrame
     ELSE creationStackTraceDataForTransferringFrame

\* The persisted creation stack traces after frameDetached removed the record.
frameDetachedTraceData(frame, isSwap, m) ==
  LET traceData == getCreationStackTraceData(frame)
  IN IF isSwap /\ ~MapHas(m, frame.id) /\ traceData.creationStackTrace # 0
     THEN (frame.id :> traceData) @@ creationStackTraceDataForTransferringFrame
     ELSE creationStackTraceDataForTransferringFrame

\* Mutant of frameDetachedFramesForTarget: leaves the id in the target's set.
frameDetachedFramesForTargetKept(frame) == framesForTarget

frameDetachedFramesForTarget(frame) ==
  IF frame.target \in DOMAIN framesForTarget
  THEN [ framesForTarget EXCEPT ![frame.target] = SetDelete(@, frame.id) ]
  ELSE framesForTarget

\* frameDetached(event), event.data = {frame, isSwap}.  The ResourceTreeModel
\* has dropped the frame it detaches.
frameDetached(frame, isSwap) ==
  LET reg == decreaseOrRemoveFrame(Reg(frames, topFrame, << >>), frame.id)
  IN /\ frames' = reg.frames
     /\ topFrame' = reg.topFrame
     /\ creationStackTraceDataForTransferringFrame' =
          frameDetachedTraceData(frame, isSwap, reg.frames)
     /\ framesForTarget' = frameDetachedFramesForTarget(frame)
     /\ emitted' = reg.emitted
     /\ lastCall' = Call("frameDetached", frame.target, frame.id, isSwap, NoTarget)
     /\ UNCHANGED << singleton, conductor, screencast >>
     /\ treeModel' = [ treeModel EXCEPT ![frame.target][frame.id] = Null ]
     /\ UNCHANGED awaitedFrames

\* modelAdded(resourceTreeModel), resourceTreeModel.target().id() = target
modelAdded(target) ==
  /\ eventListeners' = eventListeners \cup {target}
  /\ framesForTarget' = (target :> << >>) @@ framesForTarget
  /\ emitted' = << >>
  /\ delivered' = << >>
  /\ lastCall' = Call("modelAdded", target, "", FALSE, NoTarget)
  /\ UNCHANGED << singleton, conductor, screencast >>
  /\ UNCHANGED << frames, topFrame, creationStackTraceDataForTransferringFrame,
                  awaitedFrames, treeModel, nextFrame, nextWaiter, calls, lastFor,
                  resolved >>

\* Mutant of modelRemovedReg: skips the loop over the model's frames.
modelRemovedRegNoLoop(target) == Reg(frames, topFrame, << >>)

\* The registry part after the loop of modelRemoved.
modelRemovedReg(target) ==
  IF target \in DOMAIN framesForTarget
  THEN DecreaseAll(Reg(frames, topFrame, << >>), framesForTarget[target])
  ELSE Reg(frames, topFrame, << >>)

\* The identities the loop of modelRemoved visits.
modelRemovedIds(target) ==
  IF target \in DOMAIN framesForTarget
  THEN { framesForTarget[target][i] : i \in 1..Len(framesForTarget[target]) }
  ELSE {}

\* Mutant of modelRemovedFramesForTarget: empties the target's frame-id set
\* and keeps the entry.
modelRemovedFramesForTargetEmptied(target) ==
  [ t \in DOMAIN framesForTarget |-> IF t = target THEN << >> ELSE framesForTarget[t] ]

modelRemovedFramesForTarget(target) ==
  [ t \in DOMAIN framesForTarget \ {target} |-> framesForTarget[t] ]

\* modelRemoved(resourceTreeModel)
modelRemoved(target) ==
  LET reg == modelRemovedReg(target)
  IN /\ eventListeners' = eventListeners \ {target}
     /\ frames' = reg.frames
     /\ topFrame' = reg.topFrame
     /\ framesForTarget' = modelRemovedFramesForTarget(target)
     /\ emitted' = reg.emitted
     /\ lastCall' = Call("modelRemoved", target, "", FALSE, NoTarget)
     /\ UNCHANGED << singleton, conductor, screencast >>
     /\ treeModel' = [ treeModel EXCEPT ![target] = [ id \in Ids |-> Null ] ]
     /\ UNCHANGED << creationStackTraceDataForTransferringFrame, awaitedFrames,
                     nextFrame, nextWaiter >>

\* Mutant of frameNavigated: TopFrameNavigated for the cached top frame only.
frameNavigatedCachedTop(frame) ==
  /\ emitted' = << FrameNavigated(frame) >> \o
                (IF topFrame = Some(frame) THEN << TopFrameNavigated(frame) >> ELSE << >>)
  /\ lastCall' = Call("frameNavigated", frame.target, frame.id, FALSE, NoTarget)
  /\ UNCHANGED << singleton, conductor, screencast >>
  /\ UNCHANGED << frames, framesForTarget, topFrame,
                  creationStackTraceDataForTransferringFrame, awaitedFrames,
                  eventListeners, treeModel, nextFrame, nextWaiter, calls, lastFor,
                  delivered, resolved >>

\* frameNavigated(event), event.data = frame
frameNavigated(frame) ==
  /\ emitted' = << FrameNavigated(frame) >> \o
                (IF isTopFrame(frame) THEN << TopFrameNavigated(frame) >> ELSE << >>)
  /\ lastCall' = Call("frameNavigated", frame.target, frame.id, FALSE, NoTarget)
  /\ UNCHANGED << singleton, conductor, screencast >>
  /\ UNCHANGED << frames, framesForTarget, topFrame,
                  creationStackTraceDataForTransferringFrame, awaitedFrames,
                  eventListeners, treeModel, nextFrame, nextWaiter, calls, lastFor,
                  delivered, resolved >>

\* Mutant of resourceAdded: dispatches the event without event.data.
resourceAddedWithoutData(target, resource) ==
  /\ emitted' = << ResourceAdded("") >>
  /\ lastCall' = [ Call("resourceAdded", target, "", FALSE, NoTarget)
                     EXCEPT !.resource = resource ]
  /\ UNCHANGED << singleton, conductor, screencast >>
  /\ UNCHANGED << frames, framesForTarget, topFrame,
                  creationStackTraceDataForTransferringFrame, awaitedFrames,
                  eventListeners, treeModel, nextFrame, nextWaiter, calls, lastFor,
                  delivered, resolved >>

\* resourceAdded(event), event.data = resource
resourceAdded(target, resource) ==
  /\ emitted' = << ResourceAdded(resource) >>
  /\ lastCall' = [ Call("resourceAdded", target, "", FALSE, NoTarget)
                     EXCEPT !.resource = resource ]
  /\ UNCHANGED << singleton, conductor, screencast >>
  /\ UNCHANGED << frames, framesForTarget, topFrame,
                  creationStackTraceDataForTransferringFrame, awaitedFrames,
                  eventListeners, treeModel, nextFrame, nextWaiter, calls, lastFor,
                  delivered, resolved >>

\* Mutant of getOrWaitForFrameNow: ignores notInTarget.
getOrWaitForFrameNowAnyTarget(frameId, notInTarget) == getFrame(frames, frameId)

\* Mutant of getOrWaitForFrameNow: never returns at once.
getOrWaitForFrameNowNever(frameId, notInTarget) == Null

\* The test of getOrWaitForFrame: the frame it returns at once, or null.
getOrWaitForFrameNow(frameId, notInTarget) ==
  LET frame == getFrame(frames, frameId)
  IN IF frame # Null /\ (notInTarget = NoTarget \/ notInTarget # frame[1].target)
     THEN frame
     ELSE Null

getOrWaitForFrameWaiting(frameId, notInTarget, waiter) ==
  LET entry == [ notInTarget |-> notInTarget, waiter |-> waiter ]
  IN IF frameId \in DOMAIN awaitedFrames
     THEN [ awaitedFrames EXCEPT ![frameId] = Append(@, entry) ]
     ELSE (frameId :> << entry >>) @@ awaitedFrames

\* getOrWaitForFrame(frameId, notInTarget); the promise is number `waiter`
getOrWaitForFrame(frameId, notInTarget, waiter) ==
  LET now == getOrWaitForFrameNow(frameId, notInTarget)
  IN /\ IF now # Null
        THEN /\ emitted' = << Resolve(waiter, now[1]) >>
             /\ UNCHANGED awaitedFrames
        ELSE /\ awaitedFrames' = getOrWaitForFrameWaiting(frameId, notInTarget, waiter)
             /\ emitted' = << >>
     /\ lastCall' = Call("getOrWaitForFrame", NoTarget, frameId, FALSE, notInTarget)
     /\ UNCHANGED << singleton, conductor, screencast >>
     /\ UNCHANGED << frames, framesForTarget, topFrame,
                     creationStackTraceDataForTransferringFrame,
                     eventListeners, treeModel, nextFrame, calls, lastFor,
                     delivered >>

\* ------------------------------------------------------- instance ----
\* new FrameManager(): empty maps, no top frame, no listeners (119-134; the
\* field initialiser of awaitedFrames, 117).
constructed ==
  /\ frames' = << >>
  /\ framesForTarget' = << >>
  /\ topFrame' = Null
  /\ creationStackTraceDataForTransferringFrame' = << >>
  /\ awaitedFrames' = << >>
  /\ eventListeners' = {}

kept ==
  UNCHANGED << frames, framesForTarget, topFrame,
               creationStackTraceDataForTransferringFrame, awaitedFrames,
               eventListeners >>

\* Mutant of instance: forceNew is ignored.
instanceIgnoringForceNew(forceNew) ==
  /\ IF frameManagerInstance = 0
     THEN /\ managers' = managers + 1
          /\ frameManagerInstance' = managers + 1
          /\ constructed
     ELSE /\ UNCHANGED << managers, frameManagerInstance >>
          /\ kept
  /\ instanceReturned' = frameManagerInstance'
  /\ emitted' = << >>
  /\ lastCall' = [ Call("instance", NoTarget, "", FALSE, NoTarget)
                     EXCEPT !.forceNew = forceNew ]
  /\ UNCHANGED << treeModel, nextFrame, nextWaiter, calls, lastFor, delivered, resolved,
                  conductor, screencast >>

\* FrameManager.instance({forceNew})
instance(forceNew) ==
  /\ IF frameManagerInstance = 0 \/ forceNew
     THEN /\ managers' = managers + 1
          /\ frameManagerInstance' = managers + 1
          /\ constructed
     ELSE /\ UNCHANGED << managers, frameManagerInstance >>
          /\ kept
  /\ instanceReturned' = frameManagerInstance'
  /\ emitted' = << >>
  /\ lastCall' = [ Call("instance", NoTarget, "", FALSE, NoTarget)
                     EXCEPT !.forceNew = forceNew ]
  /\ UNCHANGED << treeModel, nextFrame, nextWaiter, calls, lastFor, delivered, resolved,
                  conductor, screencast >>

\* ---------------------------------------------------- test_config ----
\* Strings are sequences of characters, arrays are sequences, and the
\* indices the operators take and return are JavaScript's (from 0; -1 for
\* "not found").
DiffBehaviors ==
  [ Update   |-> << "u", "p", "d", "a", "t", "e" >>,
    Throw    |-> << "t", "h", "r", "o", "w" >>,
    NoThrow  |-> << "n", "o", "-", "t", "h", "r", "o", "w" >>,
    NoUpdate |-> << "n", "o", "-", "u", "p", "d", "a", "t", "e" >> ]

\* Array.prototype.lastIndexOf
lastIndexOf(array, element) ==
  IF \E i \in 1..Len(array) : array[i] = element
  THEN (CHOOSE i \in 1..Len(array) :
          /\ array[i] = element
          /\ \A j \in (i + 1)..Len(array) : array[j] # element) - 1
  ELSE -1

\* Array.prototype.indexOf and String.prototype.indexOf
indexOf(array, element) ==
  IF \E i \in 1..Len(array) : array[i] = element
  THEN (CHOOSE i \in 1..Len(array) :
          /\ array[i] = element
          /\ \A j \in 1..(i - 1) : array[j] # element) - 1
  ELSE -1

\* Array.prototype.slice(start) and String.prototype.substr(start), start >= 0
slice(array, start) == SubSeq(array, start + 1, Len(array))

substr(v, start) == SubSeq(v, start + 1, Len(v))

includes(array, element) == \E i \in 1..Len(array) : array[i] = element

startsWith(v, prefix) ==
  Len(v) >= Len(prefix) /\ SubSeq(v, 1, Len(prefix)) = prefix

\* Mutant of sliceArrayFromElement: cuts after the first occurrence.
sliceArrayFromFirstElement(array, element) ==
  LET index == indexOf(array, element)
  IN IF index < 0 THEN array ELSE slice(array, index + 1)

sliceArrayFromElement(array, element) ==
  LET index == lastIndexOf(array, element)
  IN IF index < 0 THEN array ELSE slice(array, index + 1)

onDiffThrow(flags) ==
  \/ ~includes(flags, DiffBehaviors.NoThrow)
  \/ includes(sliceArrayFromElement(flags, DiffBehaviors.NoThrow), DiffBehaviors.Throw)

onDiffUpdate(flags) ==
  SelectSeq(sliceArrayFromElement(flags, DiffBehaviors.NoUpdate),
            LAMBDA v : startsWith(v, DiffBehaviors.Update))

\* Mutant of diffUpdateFilters: maps every update flag, the plain ones too.
diffUpdateFiltersOfAll(flags) ==
  LET selected == onDiffUpdate(flags)
  IN [ i \in 1..Len(selected) |-> substr(selected[i], indexOf(selected[i], "=") + 1) ]

diffUpdateFilters(flags) ==
  LET selected == sliceArrayFromElement(onDiffUpdate(flags), DiffBehaviors.Update)
  IN [ i \in 1..Len(selected) |-> substr(selected[i], indexOf(selected[i], "=") + 1) ]

\* A value that is a boolean or an array, and JavaScript's a || b on them
\* (an array is truthy, also an empty one).
JsBoolean(b) == [ isArray |-> FALSE, boolean |-> b, array |-> << >> ]

JsArray(a) == [ isArray |-> TRUE, boolean |-> FALSE, array |-> a ]

JsOr(a, b) == IF a.isArray \/ a.boolean THEN a ELSE b

onDiffUpdateAll(flags) ==
  Len(onDiffUpdate(flags)) > 0 /\ Len(diffUpdateFilters(flags)) = 0

onDiffUpdateSelected(flags) ==
  IF Len(onDiffUpdate(flags)) > 0 THEN JsArray(diffUpdateFilters(flags)) ELSE JsBoolean(FALSE)

\* The onDiff member of the exported TestConfig.
onDiff(flags) ==
  [ update |-> JsOr(JsBoolean(onDiffUpdateAll(flags)), onDiffUpdateSelected(flags)),
    throw |-> onDiffThrow(flags) ]

\* Loading the module evaluates its top-level constants.
LoadTestConfig ==
  /\ TestConfig = Null
  /\ TestConfig' = Some([ onDiff |-> onDiff(diffBehaviors) ])
  /\ UNCHANGED diffBehaviors

\* ---------------------------------------------------- ScreencastApp ----
\* A ScreenCaptureModel object of a target.
ScreenCaptureModel(target, oid) == [ target |-> target, oid |-> oid ]

\* A call on the app: its name, the model passed (if any) and what
\* primaryPageTarget() returned during it.
AppCall(op, screenCaptureModel, primaryPageTarget) ==
  [ op |-> op, screenCaptureModel |-> screenCaptureModel,
    primaryPageTarget |-> primaryPageTarget ]

\* new ScreencastApp(): enabledSetting is the stored 'screencast-enabled'
\* setting, the toggle button shows it and is disabled.
ScreencastApp(setting) ==
  [ enabledSetting |-> setting,
    toggleButton |-> [ toggled |-> setting, enabled |-> FALSE ],
    screenCaptureModel |-> Null,
    screencastView |-> Null ]

\* new ScreencastView(screenCaptureModel)
ScreencastView(screenCaptureModel) == [ screenCaptureModel |-> screenCaptureModel ]

\* Mutant of onScreencastEnabledChanged: shows the setting alone.
onScreencastEnabledChangedSettingOnly(app) ==
  [ app EXCEPT !.toggleButton.toggled = app.enabledSetting ]

onScreencastEnabledChanged(app) ==
  LET enabled == app.enabledSetting /\ app.screencastView # Null
  IN [ app EXCEPT !.toggleButton.toggled = enabled ]

\* ScreencastApp.modelAdded(screenCaptureModel); primaryPageTarget is what
\* TargetManager.instance().primaryPageTarget() returns during the call: a
\* target or null.
ScreencastAppModelAdded(app, screenCaptureModel, primaryPageTarget) ==
  IF Some(screenCaptureModel.target) # primaryPageTarget
  THEN app
  ELSE onScreencastEnabledChanged(
         [ app EXCEPT !.screenCaptureModel = Some(screenCaptureModel),
                      !.toggleButton.enabled = TRUE,
                      !.screencastView = Some(ScreencastView(screenCaptureModel)) ])

\* ScreencastApp.modelRemoved(screenCaptureModel)
ScreencastAppModelRemoved(app, screenCaptureModel) ==
  IF app.screenCaptureModel # Some(screenCaptureModel)
  THEN app
  ELSE onScreencastEnabledChanged(
         [ app EXCEPT !.screenCaptureModel = Null,
                      !.toggleButton.enabled = FALSE,
                      !.screencastView = Null ])

toggleButtonClicked(app) ==
  LET enabled == ~app.toggleButton.toggled
  IN onScreencastEnabledChanged([ app EXCEPT !.enabledSetting = enabled ])

\* ---------------------------------------------------- environment ----
\* The TargetManager attaches and removes models; an attached
\* ResourceTreeModel announces a frame it does not hold yet, and detaches
\* or navigates a frame it holds (treeModel is the model's own frame map).
\* A removed model sends no further events: its listeners are removed.
FrameManagerConstructed ==
  /\ frames = << >>
  /\ framesForTarget = << >>
  /\ topFrame = Null
  /\ creationStackTraceDataForTransferringFrame = << >>
  /\ awaitedFrames = << >>
  /\ eventListeners = {}
  /\ treeModel = [ t \in Targets |-> [ id \in Ids |-> Null ] ]
  /\ nextFrame = 0
  /\ nextWaiter = 0
  /\ lastCall = Call("constructor", NoTarget, "", FALSE, NoTarget)
  /\ emitted = << >>
  /\ calls = [ id \in Ids |-> [ added |-> 0, detached |-> 0, released |-> 0, removed |-> 0 ] ]
  /\ lastFor = [ id \in Ids |-> Null ]
  /\ delivered = << >>
  /\ resolved = [ w \in 1..MaxWaiters |-> << >> ]
  /\ frameManagerInstance = 0
  /\ managers = 0
  /\ instanceReturned = 0

\* The test runner's module is not loaded and has no flags.
ConductorIdle ==
  /\ diffBehaviors = << >>
  /\ TestConfig = Null

\* The ScreencastApp as constructed with the default of its setting; no
\* ScreenCaptureModel exists.
ScreencastIdle ==
  /\ appInstance = ScreencastApp(TRUE)
  /\ screenCaptureModels = {}
  /\ nextModel = 0
  /\ appCall = AppCall("constructor", Null, Null)

Init ==
  /\ FrameManagerConstructed
  /\ ConductorIdle
  /\ ScreencastIdle

ModelAdded ==
  \E target \in Targets \ eventListeners : modelAdded(target)

ModelRemovedOf(counting) ==
  \E target \in eventListeners :
    /\ modelRemoved(target)
    /\ CountCalls(counting, {}, {}, modelRemovedIds(target))
    /\ UNCHANGED << lastFor, delivered, resolved >>

ModelRemoved == ModelRemovedOf(FALSE)

\* A target creates a frame it does not hold and announces it.
TargetAddsFrame(tops, traces, bound, counting) ==
  \E target \in eventListeners, id \in Ids, top \in tops, hasTrace \in traces :
    /\ nextFrame < bound
    /\ treeModel[target][id] = Null
    /\ nextFrame' = nextFrame + 1
    /\ frameAdded(NewFrame(id, target, top, hasTrace, nextFrame + 1))
    /\ CountCalls(counting, {id}, {}, {})
    /\ UNCHANGED << eventListeners, nextWaiter, lastFor, delivered, resolved >>

FrameAdded == TargetAddsFrame(BOOLEAN, BOOLEAN, MaxFrames, FALSE)

\* A target detaches a frame it holds.
FrameDetachedOf(counting) ==
  \E target \in eventListeners, id \in Ids, isSwap \in BOOLEAN :
    /\ treeModel[target][id] # Null
    /\ frameDetached(treeModel[target][id][1], isSwap)
    /\ CountCalls(counting, {}, {id}, {})
    /\ UNCHANGED << eventListeners, nextFrame, nextWaiter, lastFor, delivered, resolved >>

FrameDetached == FrameDetachedOf(FALSE)

FrameNavigatedEvent ==
  \E target \in eventListeners, id \in Ids :
    /\ treeModel[target][id] # Null
    /\ frameNavigated(treeModel[target][id][1])

ResourceAddedEvent ==
  \E target \in eventListeners, resource \in Resources :
    resourceAdded(target, resource)

GetOrWaitForFrame ==
  \E id \in Ids, notInTarget \in Targets \cup {NoTarget} :
    /\ nextWaiter < MaxWaiters
    /\ nextWaiter' = nextWaiter + 1
    /\ getOrWaitForFrame(id, notInTarget, nextWaiter + 1)
    /\ UNCHANGED resolved

\* The frame life cycle: models come and go, frames are added and detached.
\* frameNavigated, resourceAdded and getOrWaitForFrame write none of frames,
\* framesForTarget, topFrame and the persisted creation stack traces and
\* dispatch no FrameRemoved, so they are left to the other specifications.
Next ==
  \/ ModelAdded
  \/ ModelRemoved
  \/ FrameAdded
  \/ FrameDetached

Spec == Init /\ [][Next]_vars

\* The frame life cycle with the calls and FrameRemoved events counted.
\* Counts, presence and FrameRemoved depend on neither isTopFrame() nor the
\* creation stack trace, so the frames of this specification are all
\* non-top and carry no trace.
CountedModelRemoved == ModelRemovedOf(TRUE)

CountedFrameAdded == TargetAddsFrame({FALSE}, {FALSE}, MaxFrames, TRUE)

CountedFrameDetached == FrameDetachedOf(TRUE)

NextCalls ==
  \/ ModelAdded
  \/ CountedModelRemoved
  \/ CountedFrameAdded
  \/ CountedFrameDetached

SpecCalls == Init /\ [][NextCalls]_vars

\* Waiting for frames.  Neither getOrWaitForFrame nor resolveAwaitedFrame
\* reads isTopFrame() or the creation stack trace, so the frames of this
\* specification are all non-top and carry no trace.
WaitFrameAdded == TargetAddsFrame({FALSE}, {FALSE}, MaxWaitFrames, FALSE)

NextWait ==
  \/ ModelAdded
  \/ ModelRemoved
  \/ WaitFrameAdded
  \/ FrameDetached
  \/ GetOrWaitForFrame

SpecWait == Init /\ [][NextWait]_vars

\* The frame life cycle with, per identity, the last frameAdded or
\* frameDetached call remembered: the call, the creation-stack-trace data of
\* its frame as the handler left it, the other targets that held the
\* identity when the call was made, and the number of FrameRemoved events
\* the call dispatched for the identity.
\* Neither the creation stack trace nor the counts depend on isTopFrame(),
\* so the frames of this specification are all non-top.
LastFor(op, frame, isSwap) ==
  [ op |-> op, isSwap |-> isSwap, target |-> frame.target,
    traceData |-> getCreationStackTraceData(frame),
    others |-> { t \in Targets \ {frame.target} : treeModel[t][frame.id] # Null },
    removed |-> CountRemoved(emitted', frame.id) ]

TraceFrameAdded ==
  \E target \in eventListeners, id \in Ids, hasTrace \in BOOLEAN :
    LET raw == NewFrame(id, target, FALSE, hasTrace, nextFrame + 1)
    IN /\ nextFrame < MaxFrames
       /\ treeModel[target][id] = Null
       /\ nextFrame' = nextFrame + 1
       /\ frameAdded(raw)
       /\ lastFor' = [ lastFor EXCEPT
                         ![id] = Some(LastFor("frameAdded", frameAddedFrame(raw), FALSE)) ]
       /\ UNCHANGED << eventListeners, nextWaiter, calls, delivered, resolved >>

TraceFrameDetached ==
  \E target \in eventListeners, id \in Ids, isSwap \in BOOLEAN :
    /\ treeModel[target][id] # Null
    /\ frameDetached(treeModel[target][id][1], isSwap)
    /\ lastFor' = [ lastFor EXCEPT
                      ![id] = Some(LastFor("frameDetached", treeModel[target][id][1], isSwap)) ]
    /\ UNCHANGED << eventListeners, nextFrame, nextWaiter, calls, delivered, resolved >>

NextTrace ==
  \/ ModelAdded
  \/ ModelRemoved
  \/ TraceFrameAdded
  \/ TraceFrameDetached

SpecTrace == Init /\ [][NextTrace]_vars

\* Events the registry was not prepared by an earlier event for.
\* modelAdded only subscribes to the model's events (145-155) and does not
\* read the frames the model holds already, so a ResourceTreeModel that is
\* older than the manager (line 122, or a manager made with forceNew) can
\* hold frames the manager never saw a FrameAdded for, and detach them: the
\* identity is not in the target's frame-id set then.  modelRemoved is a
\* public method and can be called for a model the manager holds no
\* frame-id set of.
StrayFrameDetached ==
  \E target \in eventListeners, id \in Ids, isSwap \in BOOLEAN,
     top \in BOOLEAN, hasTrace \in BOOLEAN :
    /\ nextFrame < MaxFrames
    /\ treeModel[target][id] = Null
    /\ nextFrame' = nextFrame + 1
    /\ frameDetached(NewFrame(id, target, top, hasTrace, nextFrame + 1), isSwap)
    /\ UNCHANGED << eventListeners, nextWaiter, calls, lastFor,
                  delivered, resolved >>

StrayModelRemoved ==
  \E target \in Targets \ eventListeners :
    /\ modelRemoved(target)
    /\ UNCHANGED << calls, lastFor,
                  delivered, resolved >>

NextAny ==
  \/ ModelAdded
  \/ ModelRemoved
  \/ StrayModelRemoved
  \/ FrameAdded
  \/ FrameDetached
  \/ StrayFrameDetached

SpecAny == Init /\ [][NextAny]_vars

\* The events the manager republishes: the frame life cycle, navigations
\* and resources.  A navigating frame is one its target holds, or one the
\* target held before the manager listened (object 0, never announced).
\* No handler reads the creation stack trace of a frame it republishes, so
\* the frames of this specification carry no trace.
EventFrameAdded == TargetAddsFrame(BOOLEAN, {FALSE}, MaxEventFrames, FALSE)

UnseenFrameNavigated ==
  \E target \in eventListeners, id \in Ids, top \in BOOLEAN :
    /\ treeModel[target][id] = Null
    /\ frameNavigated(NewFrame(id, target, top, FALSE, 0))

EventGetOrWaitForFrame ==
  \E id \in Ids, notInTarget \in Targets \cup {NoTarget} :
    /\ nextWaiter < MaxEventWaiters
    /\ nextWaiter' = nextWaiter + 1
    /\ getOrWaitForFrame(id, notInTarget, nextWaiter + 1)
    /\ UNCHANGED resolved

NextEvents ==
  \/ ModelAdded
  \/ ModelRemoved
  \/ EventFrameAdded
  \/ FrameDetached
  \/ FrameNavigatedEvent
  \/ UnseenFrameNavigated
  \/ ResourceAddedEvent

SpecEvents == Init /\ [][NextEvents]_vars

\* Every handler and getOrWaitForFrame together, for the frames the targets
\* announced.
NextAll ==
  \/ ModelAdded
  \/ ModelRemoved
  \/ EventFrameAdded
  \/ FrameDetached
  \/ FrameNavigatedEvent
  \/ ResourceAddedEvent
  \/ EventGetOrWaitForFrame

SpecAll == Init /\ [][NextAll]_vars

\* The frame life cycle with, per dispatched event, the registry as it is
\* at the moment of the dispatch, which is what a listener called
\* synchronously by dispatchEventToListeners can read: the frames, the
\* answer of getFrame for the event's identity, the top-frame cache, and
\* whether the identity is in the frame-id set of the target the call is
\* about.  The creation stack trace plays no part in any of these, so the
\* frames of this specification carry no trace.
AtDispatch(m, top, sets, target, frameId) ==
  [ allFrames |-> getAllFrames(m),
    frame |-> getFrame(m, frameId),
    topFrame |-> top,
    inFrameSet |-> target \in DOMAIN sets /\ SetHas(sets[target], frameId) ]

\* frameAdded dispatches FrameAddedToTarget after frames.set, resetTopFrame
\* and frameSet.add.
frameAddedAtDispatch(raw) ==
  LET frame == frameAddedFrame(raw)
      m == frameAddedFrames(frame)
  IN << AtDispatch(m, resetTopFrame(m), frameAddedFramesForTarget(frame),
                   frame.target, frame.id) >>

\* decreaseOrRemoveFrame dispatches FrameRemoved after frames.delete and
\* resetTopFrame, before it returns to its caller; `sets` is framesForTarget
\* as the caller has it during the call.
decreaseOrRemoveFrameAtDispatch(reg, sets, target, frameId) ==
  LET next == decreaseOrRemoveFrame(reg, frameId)
  IN IF Len(next.emitted) > Len(reg.emitted)
     THEN << AtDispatch(next.frames, next.topFrame, sets, target, frameId) >>
     ELSE << >>

\* Mutant of frameDetachedAtDispatch: the id leaves the target's frame-id
\* set before decreaseOrRemoveFrame is called.
frameDetachedAtDispatchSetFirst(frame) ==
  decreaseOrRemoveFrameAtDispatch(Reg(frames, topFrame, << >>),
                                  frameDetachedFramesForTarget(frame),
                                  frame.target, frame.id)

\* frameDetached calls decreaseOrRemoveFrame first and deletes the id from
\* the target's frame-id set last.
frameDetachedAtDispatch(frame) ==
  decreaseOrRemoveFrameAtDispatch(Reg(frames, topFrame, << >>), framesForTarget,
                                  frame.target, frame.id)

\* The loop of modelRemoved runs over the target's frame-id set, which is
\* deleted from framesForTarget after the loop.
RECURSIVE DecreaseAllAtDispatch(_, _, _)
DecreaseAllAtDispatch(reg, frameSet, target) ==
  IF frameSet = << >> THEN << >>
  ELSE decreaseOrRemoveFrameAtDispatch(reg, framesForTarget, target, Head(frameSet))
       \o DecreaseAllAtDispatch(decreaseOrRemoveFrame(reg, Head(frameSet)),
                                Tail(frameSet), target)

modelRemovedAtDispatch(target) ==
  IF target \in DOMAIN framesForTarget
  THEN DecreaseAllAtDispatch(Reg(frames, topFrame, << >>), framesForTarget[target], target)
  ELSE << >>

DispatchModelRemoved ==
  \E target \in eventListeners :
    /\ modelRemoved(target)
    /\ delivered' = modelRemovedAtDispatch(target)
    /\ UNCHANGED << calls, lastFor, resolved >>

DispatchFrameAdded ==
  \E target \in eventListeners, id \in Ids, top \in BOOLEAN :
    LET raw == NewFrame(id, target, top, FALSE, nextFrame + 1)
    IN /\ nextFrame < MaxFrames
       /\ treeModel[target][id] = Null
       /\ nextFrame' = nextFrame + 1
       /\ frameAdded(raw)
       /\ delivered' = frameAddedAtDispatch(raw)
       /\ UNCHANGED << eventListeners, nextWaiter, calls, lastFor, resolved >>

DispatchFrameDetached ==
  \E target \in eventListeners, id \in Ids, isSwap \in BOOLEAN :
    /\ treeModel[target][id] # Null
    /\ frameDetached(treeModel[target][id][1], isSwap)
    /\ delivered' = frameDetachedAtDispatch(treeModel[target][id][1])
    /\ UNCHANGED << eventListeners, nextFrame, nextWaiter, calls, lastFor, resolved >>

NextDispatch ==
  \/ ModelAdded
  \/ DispatchModelRemoved
  \/ DispatchFrameAdded
  \/ DispatchFrameDetached

SpecDispatch == Init /\ [][NextDispatch]_vars

\* Waiting for frames with, per promise, the frames its resolve function was
\* called with so far.  As in SpecWait the frames are all non-top and carry
\* no trace.
Resolutions(out) ==
  [ w \in DOMAIN resolved |->
      resolved[w] \o
        [ i \in 1..Len(SelectSeq(out, LAMBDA e : e.type = "resolve" /\ e.waiter = w)) |->
            SelectSeq(out, LAMBDA e : e.type = "resolve" /\ e.waiter = w)[i].frame[1] ] ]

ResolveModelRemoved ==
  \E target \in eventListeners :
    /\ modelRemoved(target)
    /\ resolved' = Resolutions(emitted')
    /\ UNCHANGED << calls, lastFor, delivered >>

ResolveFrameAdded ==
  \E target \in eventListeners, id \in Ids :
    /\ nextFrame < MaxWaitFrames
    /\ treeModel[target][id] = Null
    /\ nextFrame' = nextFrame + 1
    /\ frameAdded(NewFrame(id, target, FALSE, FALSE, nextFrame + 1))
    /\ resolved' = Resolutions(emitted')
    /\ UNCHANGED << eventListeners, nextWaiter, calls, lastFor, delivered >>

ResolveFrameDetached ==
  \E target \in eventListeners, id \in Ids, isSwap \in BOOLEAN :
    /\ treeModel[target][id] # Null
    /\ frameDetached(treeModel[target][id][1], isSwap)
    /\ resolved' = Resolutions(emitted')
    /\ UNCHANGED << eventListeners, nextFrame, nextWaiter, calls, lastFor, delivered >>

ResolveGetOrWaitForFrame ==
  \E id \in Ids, notInTarget \in Targets \cup {NoTarget} :
    /\ nextWaiter < MaxWaiters
    /\ nextWaiter' = nextWaiter + 1
    /\ getOrWaitForFrame(id, notInTarget, nextWaiter + 1)
    /\ resolved' = Resolutions(emitted')

NextResolve ==
  \/ ModelAdded
  \/ ResolveModelRemoved
  \/ ResolveFrameAdded
  \/ ResolveFrameDetached
  \/ ResolveGetOrWaitForFrame

SpecResolve == Init /\ [][NextResolve]_vars

\* The singleton: callers obtain the manager with instance(), with or
\* without forceNew, and the targets drive the manager that instance()
\* returned last.  The targets and their frames are not the manager's: they
\* stay as they are when a new manager is constructed, and the new manager
\* listens to a target from the modelAdded call for it on.
InstanceCalled ==
  \E forceNew \in BOOLEAN :
    /\ (frameManagerInstance = 0 \/ forceNew) => managers < MaxManagers
    /\ instance(forceNew)

InstanceModelAdded == frameManagerInstance # 0 /\ ModelAdded

InstanceModelRemoved == frameManagerInstance # 0 /\ ModelRemoved

InstanceFrameAdded ==
  /\ frameManagerInstance # 0
  /\ TargetAddsFrame(BOOLEAN, {FALSE}, MaxEventFrames, FALSE)

InstanceFrameDetached == frameManagerInstance # 0 /\ FrameDetached

NextInstance ==
  \/ InstanceCalled
  \/ InstanceModelAdded
  \/ InstanceModelRemoved
  \/ InstanceFrameAdded
  \/ InstanceFrameDetached

SpecInstance == Init /\ [][NextInstance]_vars

\* The variables of the FrameManager and of its observers.
frameManager ==
  << frames, framesForTarget, topFrame, creationStackTraceDataForTransferringFrame,
     awaitedFrames, eventListeners, treeModel, nextFrame, nextWaiter,
     lastCall, emitted, calls, lastFor, delivered, resolved, singleton >>

\* The test runner's configuration: a command line gives any sequence of
\* --on-diff flags, each throw, no-throw, update, no-update or update=X;
\* loading the module computes TestConfig from them.
Filters == { << "a" >>, << "b" >> }

UpdateOnly(x) == DiffBehaviors.Update \o << "=" >> \o x

Flags ==
  { DiffBehaviors.Update, DiffBehaviors.Throw, DiffBehaviors.NoThrow,
    DiffBehaviors.NoUpdate } \cup { UpdateOnly(x) : x \in Filters }

CommandLines == UNION { [ 1..n -> Flags ] : n \in 0..MaxFlags }

InitConfig ==
  /\ FrameManagerConstructed
  /\ ScreencastIdle
  /\ diffBehaviors \in CommandLines
  /\ TestConfig = Null

TestConfigLoaded ==
  /\ LoadTestConfig
  /\ UNCHANGED << frameManager, screencast >>

NextConfig == TestConfigLoaded

SpecConfig == InitConfig /\ [][NextConfig]_vars

\* The ScreencastApp and its target manager.  The app is constructed with
\* the stored value of the 'screencast-enabled' setting.  The target manager
\* creates the ScreenCaptureModel of a target that has none and tells the
\* app, and removes a model it has created; which target is the primary
\* page target is the target manager's matter and is read at each
\* modelAdded.  The toggle button's Click listener is toggleButtonClicked.
PrimaryPageTargets == { Null } \cup { Some(t) : t \in Targets }

InitScreencast ==
  /\ FrameManagerConstructed
  /\ ConductorIdle
  /\ \E setting \in BOOLEAN : appInstance = ScreencastApp(setting)
  /\ screenCaptureModels = {}
  /\ nextModel = 0
  /\ appCall = AppCall("constructor", Null, Null)

ScreenCaptureModelAdded ==
  \E target \in Targets, primaryPageTarget \in PrimaryPageTargets :
    LET screenCaptureModel == ScreenCaptureModel(target, nextModel + 1)
    IN /\ nextModel < MaxModels
       /\ \A m \in screenCaptureModels : m.target # target
       /\ appInstance' = ScreencastAppModelAdded(appInstance, screenCaptureModel, primaryPageTarget)
       /\ screenCaptureModels' = screenCaptureModels \cup { screenCaptureModel }
       /\ nextModel' = nextModel + 1
       /\ appCall' = AppCall("modelAdded", Some(screenCaptureModel), primaryPageTarget)
       /\ UNCHANGED << frameManager, conductor >>

ScreenCaptureModelRemoved ==
  \E screenCaptureModel \in screenCaptureModels :
    /\ appInstance' = ScreencastAppModelRemoved(appInstance, screenCaptureModel)
    /\ screenCaptureModels' = screenCaptureModels \ { screenCaptureModel }
    /\ appCall' = AppCall("modelRemoved", Some(screenCaptureModel), Null)
    /\ UNCHANGED << nextModel, frameManager, conductor >>

ToggleButtonClicked ==
  /\ appInstance' = toggleButtonClicked(appInstance)
  /\ appCall' = AppCall("toggleButtonClicked", Null, Null)
  /\ UNCHANGED << screenCaptureModels, nextModel, frameManager, conductor >>

NextScreencast ==
  \/ ScreenCaptureModelAdded
  \/ ScreenCaptureModelRemoved
  \/ ToggleButtonClicked

SpecScreencast == InitScreencast /\ [][NextScreencast]_vars

\* ============================================================ claims ====
Present(m, frameId) == MapHas(m, frameId)

Count(m, frameId) == IF MapHas(m, frameId) THEN MapGet(m, frameId).count ELSE 0

\* The attached targets whose frame-id set holds frameId.
TargetsHolding(sets, frameId) ==
  { t \in DOMAIN sets : SetHas(sets[t], frameId) }

\* C1. Transfer continuity: after frameAdded(F, targetA) and then
\* frameAdded(F', targetB) for one identity X, frameDetached(F, targetA,
\* isSwap = true) emits no FrameRemoved(X), and afterwards getFrame(X) is F',
\* the object of the targetB add.
C1_TransferContinuity ==
  [][ \A a \in Targets, x \in Ids : \A b \in Targets \ {a} :
        ( /\ treeModel[a][x] # Null
          /\ treeModel[b][x] # Null
          /\ treeModel[a][x][1].oid < treeModel[b][x][1].oid
          /\ lastCall' = Call("frameDetached", a, x, TRUE, NoTarget) )
        => ( /\ CountRemoved(emitted', x) = 0
             /\ getFrame(frames', x) = treeModel[b][x] ) ]_vars

C1_Witness ==
  \E a \in Targets, x \in Ids : \E b \in Targets \ {a} :
    /\ lastCall = Call("frameDetached", a, x, TRUE, NoTarget)
    /\ treeModel[b][x] # Null
    /\ getFrame(frames, x) = treeModel[b][x]
    /\ Count(frames, x) = 1
    /\ emitted = << >>

\* C2 (as claimed). In every state and for every identity X, X is present in
\* the registry iff the number of frameAdded calls for X minus the number of
\* frameDetached calls for X is at least 1.
C2_PresentIffAddsMinusDetaches ==
  \A x \in Ids : Present(frames, x) <=> (calls[x].added - calls[x].detached >= 1)

\* C2 (amended). The removals of X are its frameDetached calls and the visits
\* of X by the loop of modelRemoved: X is present iff adds minus removals is
\* at least 1, and that difference is the record's count.
C2_PresentIffAddsMinusRemovals ==
  \A x \in Ids :
    /\ Present(frames, x) <=>
         (calls[x].added - (calls[x].detached + calls[x].released) >= 1)
    /\ Count(frames, x) = calls[x].added - (calls[x].detached + calls[x].released)

C2_Witness ==
  \E x \in Ids :
    /\ lastCall.op = "modelRemoved"
    /\ calls[x].added = 2 /\ calls[x].detached = 0 /\ calls[x].released = 1
    /\ Present(frames, x)

C5_SingleRemovalEvent ==
  \A x \in Ids :
    ( calls[x].added = 1 /\ calls[x].detached = 1 )
      => /\ calls[x].removed = 1
         /\ ( lastCall.op = "frameDetached" /\ lastCall.frameId = x )
              => CountRemoved(emitted, x) = 1

C5_Witness ==
  \E x \in Ids :
    /\ calls[x].added = 1 /\ calls[x].detached = 1 /\ calls[x].removed = 1
    /\ lastCall.op = "modelRemoved"
    /\ frames # << >>

\* C6. getTopFrame() is null or a frame with isTopFrame() that is an element
\* of getAllFrames().
C6_TopFrameIsRegisteredTopFrame ==
  topFrame # Null =>
    /\ isTopFrame(topFrame[1])
    /\ \E i \in 1..Len(frames) : getAllFrames(frames)[i] = topFrame[1]

C6_Witness ==
  /\ topFrame # Null
  /\ lastCall.op = "frameDetached"
  /\ emitted # << >>
  /\ Len(frames) = 1

\* C7. getTopFrame() is null iff no frame in the registry has isTopFrame();
\* after the only top frame is removed while other frames remain it is null.
C7_TopFrameNullIffNoTopFrame ==
  (topFrame = Null) <=> (\A i \in 1..Len(frames) : ~isTopFrame(frames[i].frame))

C7_Witness ==
  \E x \in Ids :
    /\ lastCall = Call("frameDetached", "main", x, FALSE, NoTarget)
    /\ CountRemoved(emitted, x) = 1
    /\ topFrame = Null
    /\ Len(frames) = 1
    /\ frames[1].id # x
    /\ nextFrame = 2

\* C10. Bulk target removal: modelRemoved(T) visits every identity of T's
\* frame-id set once: an identity held by T only leaves the registry with one
\* FrameRemoved event, an identity also held by another target keeps its
\* record with the count decremented and no FrameRemoved event; identities T
\* does not hold are untouched.
C10_BulkTargetRemoval ==
  [][ \A t \in Targets :
        ( t \in DOMAIN framesForTarget /\ lastCall' = Call("modelRemoved", t, "", FALSE, NoTarget)
          /\ t \notin DOMAIN framesForTarget' )
        => \A x \in Ids :
             IF SetHas(framesForTarget[t], x)
             THEN IF TargetsHolding(framesForTarget, x) = {t}
                  THEN /\ ~Present(frames', x)
                       /\ CountRemoved(emitted', x) = 1
                  ELSE /\ Present(frames', x)
                       /\ Count(frames', x) = Count(frames, x) - 1
                       /\ CountRemoved(emitted', x) = 0
             ELSE /\ getFrame(frames', x) = getFrame(frames, x)
                  /\ Count(frames', x) = Count(frames, x)
                  /\ CountRemoved(emitted', x) = 0 ]_vars

C10_Witness ==
  \E x \in Ids : \E y \in Ids \ {x} :
    /\ lastCall.op = "modelRemoved"
    /\ emitted = << FrameRemoved(x) >>
    /\ Len(frames) = 1
    /\ frames[1].id = y
    /\ frames[1].count = 1
    /\ frames[1].frame.target = lastCall.target
    /\ nextFrame = 3

\* The waiters on frameId in a value of awaitedFrames.
WaitingIn(awaited, frameId) ==
  IF frameId \in DOMAIN awaited THEN awaited[frameId] ELSE << >>

Range(seq) == { seq[i] : i \in 1..Len(seq) }

\* The promises resolved by a call, from its output.
ResolvedBy(out) == { out[i].waiter : i \in { j \in 1..Len(out) : out[j].type = "resolve" } }

\* C8. Wait resolution: frameAdded(F, T) for identity X resolves with F and
\* drops every waiter on X whose notInTarget is unset or differs from T, and
\* keeps every waiter on X whose notInTarget is T; waiters on other
\* identities stay; and a pending waiter is resolved only by a frameAdded of
\* its identity from a target other than its notInTarget.
C8_WaitResolution ==
  [][ /\ ( lastCall'.op = "frameAdded" /\ nextFrame' # nextFrame )
           => LET x == lastCall'.frameId
                  t == lastCall'.target
                  f == treeModel'[t][x][1]
                  ws == WaitingIn(awaitedFrames, x)
              IN /\ \A i \in 1..Len(ws) :
                      IF ws[i].notInTarget = NoTarget \/ ws[i].notInTarget # t
                      THEN /\ Resolve(ws[i].waiter, f) \in Range(emitted')
                           /\ ws[i] \notin Range(WaitingIn(awaitedFrames', x))
                      ELSE /\ ws[i] \in Range(WaitingIn(awaitedFrames', x))
                           /\ ws[i].waiter \notin ResolvedBy(emitted')
                 /\ \A y \in Ids \ {x} :
                      WaitingIn(awaitedFrames', y) = WaitingIn(awaitedFrames, y)
      /\ \A y \in Ids : \A e \in Range(WaitingIn(awaitedFrames, y)) :
           e.waiter \in ResolvedBy(emitted')
             => /\ lastCall'.op = "frameAdded"
                /\ lastCall'.frameId = y
                /\ lastCall'.target # e.notInTarget ]_vars

C8_Witness ==
  /\ lastCall.op = "frameAdded"
  /\ ResolvedBy(emitted) # {}
  /\ \E w \in (1..nextWaiter) \ ResolvedBy(emitted) :
       WaitingIn(awaitedFrames, lastCall.frameId) =
         << [ notInTarget |-> lastCall.target, waiter |-> w ] >>

\* C9 (as claimed). getOrWaitForFrame(X, E) resolves at once iff some attached
\* target other than E (any target when E is unset) holds a live frame with
\* identity X, also while X is held by E and by another target at once;
\* otherwise it stays pending.
C9_ResolvesIffLiveOutsideExcluded ==
  lastCall.op = "getOrWaitForFrame" =>
    ( ResolvedBy(emitted) # {} <=>
        \E t \in Targets :
          /\ treeModel[t][lastCall.frameId] # Null
          /\ lastCall.notInTarget = NoTarget \/ t # lastCall.notInTarget )

\* C9 (amended). getOrWaitForFrame(X, E) resolves at once, registering no
\* waiter, iff the registry has a record for X and E is unset or the record's
\* frame (the object of the latest frameAdded for X) belongs to a target
\* other than E; otherwise it appends exactly one waiter for X and stays
\* pending.
C9_ResolvesIffRecordOutsideExcluded ==
  [][ ( lastCall'.op = "getOrWaitForFrame" /\ nextWaiter' # nextWaiter )
        => LET x == lastCall'.frameId
               e == lastCall'.notInTarget
               record == getFrame(frames, x)
           IN IF record # Null /\ (e = NoTarget \/ record[1].target # e)
              THEN /\ emitted' = << Resolve(nextWaiter', record[1]) >>
                   /\ awaitedFrames' = awaitedFrames
              ELSE /\ emitted' = << >>
                   /\ WaitingIn(awaitedFrames', x) =
                        Append(WaitingIn(awaitedFrames, x),
                               [ notInTarget |-> e, waiter |-> nextWaiter' ])
                   /\ \A y \in Ids \ {x} :
                        WaitingIn(awaitedFrames', y) = WaitingIn(awaitedFrames, y) ]_vars

C9_Witness ==
  \E x \in Ids, e \in Targets :
    /\ lastCall = Call("getOrWaitForFrame", NoTarget, x, FALSE, e)
    /\ \A t \in Targets : treeModel[t][x] # Null
    /\ Count(frames, x) = 2
    /\ getFrame(frames, x) = treeModel[e][x]
    /\ emitted = << >>
    /\ WaitingIn(awaitedFrames, x) # << >>

\* C11. Stack-trace carryover, detach first: a frame F of identity X that
\* carries a creation stack trace is detached from targetA with isSwap = true
\* while no other target holds X; the next frameAdded for X, of a frame F'
\* from a target that did not hold X, makes getFrame(X) return F' carrying
\* the creation-stack-trace data F carried.
C11_TraceCarriedOverDetachFirst ==
  [][ \A x \in Ids, b \in Targets :
        ( /\ lastFor[x] # Null
          /\ lastFor[x][1].op = "frameDetached"
          /\ lastFor[x][1].isSwap
          /\ lastFor[x][1].others = {}
          /\ lastFor[x][1].traceData.creationStackTrace # 0
          /\ lastCall' = Call("frameAdded", b, x, FALSE, NoTarget)
          /\ nextFrame' # nextFrame )
        => /\ getFrame(frames', x) = treeModel'[b][x]
           /\ getFrame(frames', x)[1].oid = nextFrame'
           /\ getCreationStackTraceData(getFrame(frames', x)[1]) =
                lastFor[x][1].traceData ]_vars

\* F' came with a creation stack trace of its own and now carries the one of
\* the frame detached from the other target.
C11_Witness ==
  \E x \in Ids, b \in Targets :
    /\ lastCall = Call("frameAdded", b, x, FALSE, NoTarget)
    /\ getFrame(frames, x) # Null
    /\ getFrame(frames, x)[1].target = b
    /\ getFrame(frames, x)[1].creationStackTrace \notin {0, getFrame(frames, x)[1].oid}
    /\ getFrame(frames, x)[1].creationStackTraceTarget # b
    /\ Count(frames, x) = 1
    /\ creationStackTraceDataForTransferringFrame = << >>

\* The frame objects of identity x that attached targets hold at present.
Live(x) == { treeModel[t][x][1] : t \in { u \in eventListeners : treeModel[u][x] # Null } }

\* C12. getFrame(X) is null exactly when no attached target reports X, and
\* otherwise returns a live frame object: the most recently added of the
\* objects of identity X that their targets still hold, never an object its
\* own target has detached or whose target has been removed.
C12_GetFrameIsLive ==
  \A x \in Ids :
    IF Live(x) = {}
    THEN getFrame(frames, x) = Null
    ELSE /\ getFrame(frames, x) # Null
         /\ getFrame(frames, x)[1] \in Live(x)
         /\ \A f \in Live(x) : f.oid <= getFrame(frames, x)[1].oid

\* C13. frameDetached(frame, isSwap) for an identity that is not in the
\* frame-id set of the frame's target is a silent no-op, for isSwap false and
\* true: records, counts, topFrame, the frame-id sets, the persisted creation
\* stack traces and the waiters are unchanged and no event is dispatched.
C13_StrayDetachIsNoOp ==
  [][ \A t \in Targets, x \in Ids, isSwap \in BOOLEAN :
        ( /\ lastCall' = Call("frameDetached", t, x, isSwap, NoTarget)
          /\ nextFrame' # nextFrame
          /\ t \in DOMAIN framesForTarget
          /\ ~SetHas(framesForTarget[t], x) )
        => /\ frames' = frames
           /\ topFrame' = topFrame
           /\ framesForTarget' = framesForTarget
           /\ creationStackTraceDataForTransferringFrame' =
                creationStackTraceDataForTransferringFrame
           /\ awaitedFrames' = awaitedFrames
           /\ emitted' = << >> ]_vars

\* The events of one type among the outputs of a call.
EventsOf(out, type) == SelectSeq(out, LAMBDA e : e.type = type)

\* C14 (as claimed). frameNavigated(frame) emits FrameNavigated(frame) and, in
\* addition, TopFrameNavigated(frame) iff frame is the cached top frame
\* (getTopFrame() === frame); for an identity without a record it never emits
\* TopFrameNavigated.
C14_TopFrameNavigatedIffCachedTop ==
  [][ lastCall'.op = "frameNavigated"
        => /\ Len(EventsOf(emitted', "FrameNavigated")) = 1
           /\ LET frame == EventsOf(emitted', "FrameNavigated")[1].frame
              IN /\ frame[1].id = lastCall'.frameId
                 /\ frame[1].target = lastCall'.target
                 /\ EventsOf(emitted', "TopFrameNavigated") =
                      (IF topFrame = frame THEN << TopFrameNavigated(frame[1]) >> ELSE << >>)
                 /\ ~MapHas(frames, frame[1].id)
                      => EventsOf(emitted', "TopFrameNavigated") = << >> ]_vars

\* C14 (amended). frameNavigated(frame) emits FrameNavigated(frame) and then
\* TopFrameNavigated(frame) iff frame.isTopFrame(), whether or not frame is
\* the cached top frame and whether or not its identity has a record; it
\* emits nothing else.
C14_TopFrameNavigatedIffIsTopFrame ==
  [][ lastCall'.op = "frameNavigated"
        => /\ Len(EventsOf(emitted', "FrameNavigated")) = 1
           /\ LET frame == EventsOf(emitted', "FrameNavigated")[1].frame
              IN /\ frame[1].id = lastCall'.frameId
                 /\ frame[1].target = lastCall'.target
                 /\ treeModel[frame[1].target][frame[1].id] \in {Null, frame}
                 /\ emitted' = << FrameNavigated(frame[1]) >> \o
                      (IF isTopFrame(frame[1])
                       THEN << TopFrameNavigated(frame[1]) >> ELSE << >>) ]_vars

\* A top-flagged frame without a record navigated while another frame is
\* the cached top frame.
C14_Witness ==
  /\ lastCall.op = "frameNavigated"
  /\ Len(emitted) = 2
  /\ emitted[2].type = "TopFrameNavigated"
  /\ ~MapHas(frames, lastCall.frameId)
  /\ topFrame # Null
  /\ topFrame # emitted[2].frame

\* C15. Every frameAdded call emits exactly one FrameAddedToTarget event, and
\* it carries the added frame object, whether or not the identity was
\* present before (so a frame that transfers between two targets gets two
\* such events); no other operation emits FrameAddedToTarget.
C15_OneFrameAddedToTargetPerAdd ==
  [][ IF lastCall'.op = "frameAdded"
      THEN LET added == treeModel'[lastCall'.target][lastCall'.frameId]
           IN /\ added # Null
              /\ added[1].oid = nextFrame'
              /\ nextFrame' = nextFrame + 1
              /\ EventsOf(emitted', "FrameAddedToTarget") =
                   << FrameAddedToTarget(added[1]) >>
      ELSE EventsOf(emitted', "FrameAddedToTarget") = << >> ]_vars

\* The second add of a transferring frame: the identity has two targets and
\* the event carries the object of this add.
C15_Witness ==
  \E x \in Ids :
    /\ lastCall.op = "frameAdded"
    /\ lastCall.frameId = x
    /\ Count(frames, x) = 2
    /\ TargetsHolding(framesForTarget, x) = Targets
    /\ EventsOf(emitted, "FrameAddedToTarget") =
         << FrameAddedToTarget(treeModel[lastCall.target][x][1]) >>
    /\ getFrame(frames, x) = treeModel[lastCall.target][x]

\* C16. frameNavigated and resourceAdded mutate no registry state: the frame
\* records with their counts, the frame-id sets, topFrame, the persisted
\* creation stack traces and the waiter lists are the same after the call;
\* resourceAdded emits exactly one ResourceAdded event, with its resource.
C16_PassThroughMutatesNothing ==
  [][ lastCall'.op \in {"frameNavigated", "resourceAdded"}
        => /\ frames' = frames
           /\ framesForTarget' = framesForTarget
           /\ topFrame' = topFrame
           /\ creationStackTraceDataForTransferringFrame' =
                creationStackTraceDataForTransferringFrame
           /\ awaitedFrames' = awaitedFrames
           /\ lastCall'.op = "resourceAdded"
                => /\ lastCall'.resource \in Resources
                   /\ emitted' = << ResourceAdded(lastCall'.resource) >> ]_vars

\* A resource arrives while an identity is held by both targets, a top frame
\* is cached and a caller waits.
C16_Witness ==
  \E x \in Ids :
    /\ lastCall.op = "resourceAdded"
    /\ lastCall.resource = "img"
    /\ emitted = << ResourceAdded("img") >>
    /\ Count(frames, x) = 2
    /\ topFrame # Null
    /\ awaitedFrames # << >>

\* C17. No operation fails, also on input no earlier event prepared:
\* getFrame of an absent identity is null, and after frameDetached of an
\* identity without a record, modelRemoved of a target without a frame-id
\* set and frameAdded with several top-flagged frames present the registry
\* satisfies its invariants: every record has a count of at least 1 and one
\* record per identity, and topFrame is null when no record's frame is
\* top-flagged and the first top-flagged frame of the registry otherwise.
C17_TotalAndInvariant ==
  /\ \A x \in Ids : ~Present(frames, x) => getFrame(frames, x) = Null
  /\ \A i \in 1..Len(frames) :
       /\ frames[i].count >= 1
       /\ \A j \in 1..Len(frames) : frames[i].id = frames[j].id => i = j
  /\ IF \A i \in 1..Len(frames) : ~isTopFrame(frames[i].frame)
     THEN topFrame = Null
     ELSE \E i \in 1..Len(frames) :
            /\ topFrame = Some(frames[i].frame)
            /\ isTopFrame(frames[i].frame)
            /\ \A j \in 1..(i - 1) : ~isTopFrame(frames[j].frame)
  /\ DOMAIN framesForTarget = eventListeners

\* A frame the manager never saw is detached: its identity has no record,
\* nothing is dispatched and the top frame of the other identity stays cached.
C17_Witness ==
  /\ lastCall.op = "frameDetached"
  /\ ~MapHas(frames, lastCall.frameId)
  /\ emitted = << >>
  /\ treeModel[lastCall.target][lastCall.frameId] = Null
  /\ Len(frames) = 1
  /\ nextFrame = 3
  /\ topFrame # Null

\* The identities with a persisted creation stack trace.
Pending(traces) == DOMAIN traces

\* C18. Lifetime of a persisted creation stack trace: no identity ever has
\* both a frame record and a persisted trace; an entry for X is created only
\* by a frameDetached of X with isSwap = true, stays until the next
\* frameAdded of X, and that frameAdded sets its data on the added frame and
\* deletes the entry.
C18_PendingTraceLifetime ==
  [][ \A x \in Ids :
        /\ x \in Pending(creationStackTraceDataForTransferringFrame')
             => ~Present(frames', x)
        /\ ( /\ x \notin Pending(creationStackTraceDataForTransferringFrame)
             /\ x \in Pending(creationStackTraceDataForTransferringFrame') )
             => /\ lastCall'.op = "frameDetached"
                /\ lastCall'.frameId = x
                /\ lastCall'.isSwap
        /\ ( /\ x \in Pending(creationStackTraceDataForTransferringFrame)
             /\ lastCall'.op = "frameAdded"
             /\ lastCall'.frameId = x
             /\ nextFrame' # nextFrame )
             => /\ x \notin Pending(creationStackTraceDataForTransferringFrame')
                /\ getFrame(frames', x)[1].oid = nextFrame'
                /\ getCreationStackTraceData(getFrame(frames', x)[1]) =
                     creationStackTraceDataForTransferringFrame[x]
        /\ ( /\ x \in Pending(creationStackTraceDataForTransferringFrame)
             /\ ~( lastCall'.op = "frameAdded" /\ lastCall'.frameId = x
                   /\ nextFrame' # nextFrame ) )
             => x \in Pending(creationStackTraceDataForTransferringFrame') ]_vars

\* A trace is persisted for an identity that is gone from the registry while
\* the other identity stays registered, and its target has been removed.
C18_Witness ==
  \E x \in Ids : \E y \in Ids \ {x} :
    /\ x \in Pending(creationStackTraceDataForTransferringFrame)
    /\ ~Present(frames, x)
    /\ lastFor[x] # Null
    /\ lastFor[x][1].op = "frameDetached"
    /\ lastFor[x][1].isSwap
    /\ Present(frames, y)
    /\ lastCall.op = "modelRemoved"
    /\ lastCall.target = lastFor[x][1].target

\* C19. A pending waiter is resolved only by a frameAdded for its identity
\* from a target it does not exclude: every other call, and a frameAdded of
\* another identity or from the excluded target, leaves the waiter in its
\* list unresolved, and frameDetached, modelRemoved, frameNavigated and
\* resourceAdded resolve and remove no waiter at all (no timeout, no
\* cancellation).
C19_WaiterLeavesOnlyByMatchingAdd ==
  [][ /\ \A y \in Ids : \A e \in Range(WaitingIn(awaitedFrames, y)) :
           IF /\ lastCall'.op = "frameAdded"
              /\ lastCall'.frameId = y
              /\ lastCall'.target # e.notInTarget
           THEN /\ e.waiter \in ResolvedBy(emitted')
                /\ e \notin Range(WaitingIn(awaitedFrames', y))
           ELSE /\ e.waiter \notin ResolvedBy(emitted')
                /\ e \in Range(WaitingIn(awaitedFrames', y))
      /\ lastCall'.op \in {"frameDetached", "modelRemoved", "modelAdded",
                           "frameNavigated", "resourceAdded"}
           => /\ awaitedFrames' = awaitedFrames
              /\ ResolvedBy(emitted') = {} ]_vars

\* The frame a caller waits for (excluding its target) is removed with its
\* target: the waiter stays.
C19_Witness ==
  \E x \in Ids :
    /\ lastCall.op = "modelRemoved"
    /\ CountRemoved(emitted, x) = 1
    /\ Len(WaitingIn(awaitedFrames, x)) = 1
    /\ WaitingIn(awaitedFrames, x)[1].notInTarget = lastCall.target
    /\ nextWaiter = 1

\* C20. frameAdded(F') for an identity X that has a record with frame F
\* raises the count by exactly 1, makes F' the record's frame, and gives F'
\* the creation-stack-trace data F holds at that moment, a null stack trace
\* included.
C20_AddToPresentCopiesTrace ==
  [][ \A x \in Ids :
        ( /\ lastCall'.op = "frameAdded"
          /\ lastCall'.frameId = x
          /\ nextFrame' # nextFrame
          /\ Present(frames, x) )
        => /\ Count(frames', x) = Count(frames, x) + 1
           /\ getFrame(frames', x) = treeModel'[lastCall'.target][x]
           /\ getFrame(frames', x)[1].oid = nextFrame'
           /\ getFrame(frames', x)[1].target = lastCall'.target
           /\ getCreationStackTraceData(getFrame(frames', x)[1]) =
                getCreationStackTraceData(getFrame(frames, x)[1])
           /\ MapIndex(frames', x) = MapIndex(frames, x) ]_vars

\* The second add of an identity: the record holds the new object, which
\* carries the stack trace the first object was created with.
C20_Witness ==
  \E x \in Ids :
    /\ lastCall.op = "frameAdded"
    /\ lastCall.frameId = x
    /\ Count(frames, x) = 2
    /\ lastFor[x] # Null
    /\ lastFor[x][1].others # {}
    /\ getFrame(frames, x)[1].target = lastCall.target
    /\ getFrame(frames, x)[1].creationStackTrace \notin {0, getFrame(frames, x)[1].oid}
    /\ getFrame(frames, x)[1].creationStackTraceTarget # lastCall.target

\* The record of identity x in a value of `frames`, or null.
Record(m, x) == IF MapHas(m, x) THEN Some(MapGet(m, x)) ELSE Null

\* C21. getAllFrames() holds exactly one frame object per identity present,
\* also while the identity is attached to two targets, and nothing else; the
\* object is the one passed to the most recent frameAdded for the identity
\* (a frameAdded puts its object into the record, and no other call changes
\* the object of a record that stays); and a frameDetached that removes one
\* identity leaves the records of all other identities as they were.
C21_OneFramePerIdentity ==
  [][ /\ Len(getAllFrames(frames')) = Cardinality({ x \in Ids : Present(frames', x) })
      /\ \A i \in 1..Len(frames') :
           /\ getAllFrames(frames')[i] = getFrame(frames', frames'[i].id)[1]
           /\ getAllFrames(frames')[i].id = frames'[i].id
           /\ \A j \in 1..Len(frames') : frames'[i].id = frames'[j].id => i = j
      /\ \A x \in Ids :
           IF lastCall'.op = "frameAdded" /\ lastCall'.frameId = x
           THEN /\ getFrame(frames', x) # Null
                /\ getFrame(frames', x)[1].oid = nextFrame'
                /\ nextFrame' = nextFrame + 1
                /\ getFrame(frames', x) = treeModel'[lastCall'.target][x]
           ELSE Present(frames', x) => getFrame(frames', x) = getFrame(frames, x)
      /\ \A x \in Ids :
           ( lastCall'.op = "frameDetached" /\ lastCall'.frameId = x )
             => \A y \in Ids \ {x} : Record(frames', y) = Record(frames, y) ]_vars

\* One identity is attached to both targets and the other to one: two
\* frames, the doubly attached one being the object of the latest add.
C21_Witness ==
  \E x \in Ids : \E y \in Ids \ {x} :
    /\ lastCall = Call("frameAdded", "oopif", x, FALSE, NoTarget)
    /\ Count(frames, x) = 2
    /\ Count(frames, y) = 1
    /\ Len(getAllFrames(frames)) = 2
    /\ getAllFrames(frames)[MapIndex(frames, x)].oid = 3
    /\ nextFrame = 3

\* The last frameAdded or frameDetached call for x was a frameDetached with
\* isSwap = true made while no other target held x: the old target's detach
\* of a transfer that arrives before the new target's add.
SwappedOutFirst(x) ==
  /\ lastFor[x] # Null
  /\ lastFor[x][1].op = "frameDetached"
  /\ lastFor[x][1].isSwap
  /\ lastFor[x][1].others = {}

\* C22 (as claimed). A transfer of identity X never reports its removal, in
\* either order.  Add first: the old target's frameDetached(isSwap = true),
\* made while the new target holds X, emits no FrameRemoved(X) and getFrame(X)
\* is non-null before and after it.  Detach first: the old target's
\* frameDetached(isSwap = true) emitted no FrameRemoved(X), getFrame(X) is
\* non-null when the new target's frameAdded arrives, and that frameAdded
\* emits no FrameRemoved(X) either.
C22_TransferNeverReportsRemoval ==
  [][ \A x \in Ids :
        /\ ( /\ lastCall'.op = "frameDetached"
             /\ lastCall'.frameId = x
             /\ lastCall'.isSwap
             /\ lastFor'[x][1].others # {} )
             => /\ CountRemoved(emitted', x) = 0
                /\ getFrame(frames, x) # Null
                /\ getFrame(frames', x) # Null
        /\ ( /\ SwappedOutFirst(x)
             /\ lastCall'.op = "frameAdded"
             /\ lastCall'.frameId = x
             /\ lastCall'.target # lastFor[x][1].target )
             => /\ lastFor[x][1].removed = 0
                /\ getFrame(frames, x) # Null
                /\ CountRemoved(emitted', x) = 0 ]_vars

\* C22 (amended). Add first: as claimed.  Detach first: the old target's
\* frameDetached(isSwap = true) finds the count at 1, deletes the record and
\* emits FrameRemoved(X) once; getFrame(X) is null until the new target's
\* frameAdded, which emits no FrameRemoved(X) and creates the record anew
\* with the added object and a count of 1.
C22_RemovalReportedOnlyDetachFirst ==
  [][ \A x \in Ids :
        /\ ( /\ lastCall'.op = "frameDetached"
             /\ lastCall'.frameId = x
             /\ lastCall'.isSwap
             /\ lastFor'[x][1].others # {} )
             => /\ CountRemoved(emitted', x) = 0
                /\ getFrame(frames, x) # Null
                /\ getFrame(frames', x) # Null
        /\ ( /\ lastCall'.op = "frameDetached"
             /\ lastCall'.frameId = x
             /\ lastCall'.isSwap
             /\ lastFor'[x][1].others = {} )
             => /\ emitted' = << FrameRemoved(x) >>
                /\ lastFor'[x][1].removed = 1
                /\ getFrame(frames', x) = Null
        /\ ( /\ SwappedOutFirst(x)
             /\ lastCall'.op = "frameAdded"
             /\ lastCall'.frameId = x
             /\ lastCall'.target # lastFor[x][1].target )
             => /\ lastFor[x][1].removed = 1
                /\ getFrame(frames, x) = Null
                /\ CountRemoved(emitted', x) = 0
                /\ Count(frames', x) = 1
                /\ getFrame(frames', x) = treeModel'[lastCall'.target][x] ]_vars

\* Between the two events of a detach-first transfer: the old target has
\* detached the frame as a swap, the new target is attached and has not
\* added it yet.
C22_Witness ==
  \E x \in Ids :
    /\ SwappedOutFirst(x)
    /\ lastFor[x][1].removed = 1
    /\ lastCall.op = "frameDetached"
    /\ lastCall.frameId = x
    /\ emitted = << FrameRemoved(x) >>
    /\ getFrame(frames, x) = Null
    /\ eventListeners = Targets
    /\ frames # << >>

Position(m, x) == MapIndex(m, x)

\* C24. With several frames flagged as top frame present, getTopFrame() is
\* the top-flagged frame of the identity inserted earliest among those
\* present: identities that stay keep their relative order, a new identity
\* goes behind all present ones, a re-added identity keeps its position, and
\* a frameAdded of a further top frame dispatches FrameAddedToTarget only.
C24_FirstDiscoveredTopFrameWins ==
  [][ /\ \A x, y \in Ids :
           (Present(frames', x) /\ Present(frames', y) /\ Present(frames, y))
             => /\ Present(frames, x)
                     => ( Position(frames', x) < Position(frames', y)
                            <=> Position(frames, x) < Position(frames, y) )
                /\ ~Present(frames, x)
                     => Position(frames', y) < Position(frames', x)
      /\ \/ /\ topFrame' = Null
            /\ \A i \in 1..Len(frames') : ~isTopFrame(frames'[i].frame)
         \/ \E i \in 1..Len(frames') :
              /\ isTopFrame(frames'[i].frame)
              /\ \A k \in 1..(i - 1) : ~isTopFrame(frames'[k].frame)
              /\ topFrame' = Some(frames'[i].frame)
      /\ lastCall'.op = "frameAdded"
           => /\ Len(emitted') = 1
              /\ emitted'[1].type = "FrameAddedToTarget"
              /\ emitted'[1].frameId = lastCall'.frameId ]_vars

\* Two identities with top-flagged frames are present, the earlier one has
\* just been re-added by a second target, and it is still the top frame.
C24_Witness ==
  /\ Len(frames) = 2
  /\ isTopFrame(frames[1].frame) /\ isTopFrame(frames[2].frame)
  /\ frames[1].count = 2
  /\ lastCall.op = "frameAdded"
  /\ lastCall.frameId = frames[1].id
  /\ frames[1].frame.oid = nextFrame
  /\ topFrame = Some(frames[1].frame)

\* The top-frame cache a listener reads is the one resetTopFrame computes
\* from the frames it can read.
Recomputed(seen) ==
  \/ /\ seen.topFrame = Null
     /\ \A i \in 1..Len(seen.allFrames) : ~isTopFrame(seen.allFrames[i])
  \/ \E i \in 1..Len(seen.allFrames) :
       /\ isTopFrame(seen.allFrames[i])
       /\ \A k \in 1..(i - 1) : ~isTopFrame(seen.allFrames[k])
       /\ seen.topFrame = Some(seen.allFrames[i])

\* What both versions of C25 say of a dispatch: the listeners of
\* FrameAddedToTarget(frame) find getFrame(frame.id) = frame, the top-frame
\* cache recomputed and the identity in the source target's frame-id set; the
\* listeners of FrameRemoved(X) find getFrame(X) = null and the top-frame
\* cache recomputed.
DispatchedAfterUpdate ==
  /\ Len(delivered) = Len(emitted)
  /\ \A i \in 1..Len(emitted) :
       /\ emitted[i].type \in {"FrameAddedToTarget", "FrameRemoved"}
       /\ Recomputed(delivered[i])
       /\ emitted[i].type = "FrameAddedToTarget"
            => /\ delivered[i].frame = emitted[i].frame
               /\ delivered[i].inFrameSet
       /\ emitted[i].type = "FrameRemoved"
            => delivered[i].frame = Null

\* C25. Events are dispatched inside the mutating call after the registry
\* state they describe is in place; for FrameRemoved(X) that includes X
\* being no longer in the detaching target's frame-id set.
C25_EventsAfterStateInPlace ==
  /\ DispatchedAfterUpdate
  /\ \A i \in 1..Len(emitted) :
       emitted[i].type = "FrameRemoved" => ~delivered[i].inFrameSet

\* C25 as the code has it: FrameRemoved(X) is dispatched by
\* decreaseOrRemoveFrame, before its caller touches the frame-id set of the
\* target, so the listeners find that set as it was before the call (X still
\* in it when the target had announced X); frameDetached takes X out of it,
\* and modelRemoved deletes the set, only after the dispatch.
C25_EventsAfterRecordAndTopFrame ==
  [][ /\ DispatchedAfterUpdate'
      /\ \A i \in 1..Len(emitted') :
           emitted'[i].type = "FrameRemoved"
             => /\ delivered'[i].inFrameSet
                  = ( /\ lastCall'.target \in DOMAIN framesForTarget
                      /\ SetHas(framesForTarget[lastCall'.target], emitted'[i].frameId) )
                /\ lastCall'.target \in DOMAIN framesForTarget'
                     => ~SetHas(framesForTarget'[lastCall'.target], emitted'[i].frameId) ]_vars

\* frameDetached has removed a top frame while another top frame stays: its
\* FrameRemoved listeners found no record, the other frame as top frame, and
\* the identity still in the detaching target's frame-id set, which no
\* longer holds it after the call.
C25_Witness ==
  \E x \in Ids :
    /\ lastCall.op = "frameDetached"
    /\ lastCall.frameId = x
    /\ emitted = << FrameRemoved(x) >>
    /\ Len(delivered) = 1
    /\ delivered[1].frame = Null
    /\ delivered[1].topFrame # Null
    /\ delivered[1].topFrame = topFrame
    /\ delivered[1].inFrameSet
    /\ ~SetHas(framesForTarget[lastCall.target], x)

\* The promises of a waiter list, in the order of the list.
Promises(ws) == [ i \in 1..Len(ws) |-> ws[i].waiter ]

\* seq is a part of `of` in the order of `of`.
InOrderOf(seq, of) ==
  \E pos \in [ 1..Len(seq) -> 1..Len(of) ] :
    /\ \A i \in 1..Len(seq) : of[pos[i]] = seq[i]
    /\ \A i, j \in 1..Len(seq) : i < j => pos[i] < pos[j]

\* C26. Within one frameAdded call FrameAddedToTarget is dispatched before
\* any waiter is resolved; the waiters on the added identity that become
\* resolvable are resolved in the order in which they were registered, and
\* the waiters that stay pending keep their relative order.  A waiter list
\* is in registration order: getOrWaitForFrame puts its waiter last.
C26_EventBeforeResolvesFifo ==
  [][ /\ lastCall'.op = "frameAdded"
        => LET x == lastCall'.frameId
               resolves == [ i \in 1..(Len(emitted') - 1) |-> emitted'[i + 1].waiter ]
           IN /\ Len(emitted') >= 1
              /\ emitted'[1].type = "FrameAddedToTarget"
              /\ \A i \in 2..Len(emitted') : emitted'[i].type = "resolve"
              /\ InOrderOf(resolves, Promises(WaitingIn(awaitedFrames, x)))
              /\ InOrderOf(Promises(WaitingIn(awaitedFrames', x)),
                           Promises(WaitingIn(awaitedFrames, x)))
              /\ Len(resolves) + Len(WaitingIn(awaitedFrames', x)) =
                   Len(WaitingIn(awaitedFrames, x))
      /\ \A x \in Ids :
           LET ws == Promises(WaitingIn(awaitedFrames', x))
           IN \A i, j \in 1..Len(ws) : i < j => ws[i] < ws[j] ]_vars

\* A frameAdded has dispatched FrameAddedToTarget and then resolved the two
\* waiters of the identity, the one registered first before the other.
C26_Witness ==
  /\ lastCall.op = "frameAdded"
  /\ Len(emitted) = 3
  /\ emitted[1].type = "FrameAddedToTarget"
  /\ emitted[2].type = "resolve" /\ emitted[2].waiter = 1
  /\ emitted[3].type = "resolve" /\ emitted[3].waiter = 2
  /\ emitted[2].frame = emitted[1].frame
  /\ awaitedFrames = << >>

\* A frame satisfies a waiter (X, E) when it is not a frame of target E.
Satisfies(frame, notInTarget) ==
  notInTarget = NoTarget \/ notInTarget # frame.target

\* C27. No lost wake-up.  getOrWaitForFrame(X, E) tests and registers in
\* one step: when getFrame(X) satisfies it the caller is resolved with that
\* frame at once and nothing is registered, otherwise exactly its waiter is
\* put on X's list; and a frameAdded(X, T) resolves with the added frame
\* every waiter on X with E # T that was pending, so that after it no such
\* waiter is left pending.
C27_NoLostWakeUp ==
  [][ /\ lastCall'.op = "getOrWaitForFrame"
        => LET x == lastCall'.frameId
               e == lastCall'.notInTarget
               now == getFrame(frames, x)
           IN IF now # Null /\ Satisfies(now[1], e)
              THEN /\ emitted' = << Resolve(nextWaiter', now[1]) >>
                   /\ awaitedFrames' = awaitedFrames
              ELSE /\ emitted' = << >>
                   /\ Promises(WaitingIn(awaitedFrames', x)) =
                        Append(Promises(WaitingIn(awaitedFrames, x)), nextWaiter')
                   /\ WaitingIn(awaitedFrames', x)[Len(WaitingIn(awaitedFrames', x))].notInTarget = e
                   /\ \A y \in Ids \ {x} :
                        WaitingIn(awaitedFrames', y) = WaitingIn(awaitedFrames, y)
      /\ lastCall'.op = "frameAdded"
        => LET x == lastCall'.frameId
               t == lastCall'.target
               before == WaitingIn(awaitedFrames, x)
           IN /\ \A i \in 1..Len(before) :
                   Satisfies(emitted'[1].frame[1], before[i].notInTarget)
                     => /\ before[i].waiter \in ResolvedBy(emitted')
                        /\ before[i] \notin Range(WaitingIn(awaitedFrames', x))
              /\ \A w \in Range(WaitingIn(awaitedFrames', x)) : w.notInTarget = t
              /\ \A i \in 2..Len(emitted') : emitted'[i].frame = emitted'[1].frame
              /\ emitted'[1].frame[1].target = t ]_vars

\* After the only frameAdded of X a second caller asks for X outside another
\* target and is resolved at once with the registered frame; the first
\* caller is not pending either.
C27_Witness ==
  \E x \in Ids :
    /\ lastCall.op = "getOrWaitForFrame"
    /\ lastCall.frameId = x
    /\ lastCall.notInTarget # NoTarget
    /\ nextWaiter = 2
    /\ awaitedFrames = << >>
    /\ Len(emitted) = 1
    /\ emitted[1].type = "resolve"
    /\ emitted[1].waiter = 2
    /\ emitted[1].frame = getFrame(frames, x)
    /\ emitted[1].frame[1].target # lastCall.notInTarget
    /\ Count(frames, x) = 1
    /\ nextFrame = 1

\* C28. For every pending waiter (X, E): X has no record, or E is set and
\* the frame registered for X is a frame of target E; and awaitedFrames
\* holds no empty list.
C28_PendingWaiterInvariant ==
  /\ \A x \in DOMAIN awaitedFrames :
       /\ Len(awaitedFrames[x]) > 0
       /\ \A i \in 1..Len(awaitedFrames[x]) :
            LET e == awaitedFrames[x][i].notInTarget
            IN \/ getFrame(frames, x) = Null
               \/ /\ e # NoTarget
                  /\ getFrame(frames, x)[1].target = e
  /\ \A x \in Ids :
       \A i \in 1..Len(WaitingIn(awaitedFrames, x)) :
         getOrWaitForFrameNow(x, WaitingIn(awaitedFrames, x)[i].notInTarget) = Null

\* Two waiters are pending on an identity that has a record, both excluding
\* the target of the registered frame; the later one was registered while
\* the record was there.
C28_Witness ==
  \E x \in Ids :
    /\ Present(frames, x)
    /\ Len(WaitingIn(awaitedFrames, x)) = 2
    /\ \A i \in 1..2 : awaitedFrames[x][i].notInTarget = getFrame(frames, x)[1].target
    /\ lastCall.op = "getOrWaitForFrame"
    /\ nextFrame = 1

\* The promises pending on any identity.
PendingPromises(awaited) ==
  UNION { Range(Promises(WaitingIn(awaited, x))) : x \in Ids }

\* C29. Every waiter is resolved at most once; the frame a waiter (X, E) is
\* resolved with has identity X, is not a frame of target E, and is the
\* object getFrame(X) returns when the resolving call is over.  A waiter is
\* resolved either by the frameAdded it was pending for or, never listed,
\* by its own getOrWaitForFrame call.  (That the delivered object can differ
\* from getFrame(X) later is shown by C29_Witness.)
C29_ResolvedOnceWithMatchingFrame ==
  [][ /\ \A w \in DOMAIN resolved :
           /\ Len(resolved'[w]) <= 1
           /\ resolved'[w] # resolved[w] => w \in ResolvedBy(emitted')
      /\ \A i \in 1..Len(emitted') :
           emitted'[i].type = "resolve"
             => LET w == emitted'[i].waiter
                    f == emitted'[i].frame[1]
                IN /\ resolved[w] = << >>
                   /\ resolved'[w] = << f >>
                   /\ w \notin PendingPromises(awaitedFrames')
                   /\ getFrame(frames', f.id) = Some(f)
                   /\ \/ /\ lastCall'.op = "frameAdded"
                         /\ \E k \in 1..Len(WaitingIn(awaitedFrames, f.id)) :
                              /\ awaitedFrames[f.id][k].waiter = w
                              /\ Satisfies(f, awaitedFrames[f.id][k].notInTarget)
                      \/ /\ lastCall'.op = "getOrWaitForFrame"
                         /\ w = nextWaiter'
                         /\ w \notin PendingPromises(awaitedFrames)
                         /\ f.id = lastCall'.frameId
                         /\ Satisfies(f, lastCall'.notInTarget) ]_vars

\* A waiter was resolved with a frame, and a later frameAdded of the identity
\* in another target has replaced the registered object: getFrame no longer
\* returns the delivered frame.
C29_Witness ==
  \E w \in DOMAIN resolved :
    /\ Len(resolved[w]) = 1
    /\ getFrame(frames, resolved[w][1].id) # Null
    /\ getFrame(frames, resolved[w][1].id) # Some(resolved[w][1])
    /\ getFrame(frames, resolved[w][1].id)[1].oid > resolved[w][1].oid
    /\ lastCall.op = "frameAdded"
    /\ nextWaiter = 1
    /\ emitted = << FrameAddedToTarget(getFrame(frames, resolved[w][1].id)[1]) >>

\* C30. Once every attached target has been removed the registry is empty:
\* getAllFrames() is empty, getTopFrame() is null, framesForTarget has no
\* entry, and the call that removed the last target dispatched FrameRemoved
\* once for every identity that was still present (an identity that left
\* earlier had its FrameRemoved then); whatever frameAdded and frameDetached
\* events the targets sent while attached.
C30_EmptyAfterAllTargetsRemoved ==
  [][ eventListeners' = {}
        => /\ getAllFrames(frames') = << >>
           /\ topFrame' = Null
           /\ DOMAIN framesForTarget' = {}
           /\ \A x \in Ids :
                /\ Present(frames, x) => CountRemoved(emitted', x) = 1
                /\ ~Present(frames, x) => CountRemoved(emitted', x) = 0 ]_vars

\* The last attached target has been removed while it still held both
\* identities and had detached neither: both left with a FrameRemoved event
\* of that call and nothing is registered any more.
C30_Witness ==
  /\ lastCall.op = "modelRemoved"
  /\ eventListeners = {}
  /\ Len(emitted) = 2
  /\ \A x \in Ids : CountRemoved(emitted, x) = 1
  /\ frames = << >>
  /\ topFrame = Null
  /\ framesForTarget = << >>
  /\ nextFrame = 3

\* C31. After modelRemoved(T) no frame object the registry exposes is a
\* frame of T: neither getFrame of a present identity, nor an element of
\* getAllFrames(), nor getTopFrame().
C31_NoFrameOfRemovedTarget ==
  lastCall.op = "modelRemoved"
    => /\ \A x \in Ids :
            getFrame(frames, x) # Null => getFrame(frames, x)[1].target # lastCall.target
       /\ \A i \in 1..Len(frames) : getAllFrames(frames)[i].target # lastCall.target
       /\ topFrame # Null => topFrame[1].target # lastCall.target

\* The identities a target reports: those it added and has not detached.
Reports(t) == { x \in Ids : treeModel[t][x] # Null }

\* C32. What each target reports is the result of its own event stream
\* alone, whatever the interleaving with the other target's stream.  The
\* identities present, their counts and the per-target frame-id sets are a
\* function of what the attached targets report, hence the same for every
\* interleaving of two well-formed streams: an identity is present iff an
\* attached target reports it, its count is the number of attached targets
\* reporting it, and a target's frame-id set holds what the target reports.
\* The registered object is one the targets supplied for the identity.
C32_StateIndependentOfInterleaving ==
  /\ \A x \in Ids :
       /\ Present(frames, x) <=> (\E t \in eventListeners : x \in Reports(t))
       /\ Count(frames, x) = Cardinality({ t \in eventListeners : x \in Reports(t) })
       /\ Present(frames, x) => getFrame(frames, x)[1].id = x
  /\ DOMAIN framesForTarget = eventListeners
  /\ \A t \in DOMAIN framesForTarget : Range(framesForTarget[t]) = Reports(t)
  /\ \A i \in 1..Len(frames) : frames[i].frame.oid \in 1..nextFrame

\* Both targets report the same identity and one of them a second one.  The
\* object registered for the doubly attached identity is the one of the
\* target whose frameAdded came second, here main; with the two frameAdded
\* calls in the other order it would be the object of oopif.
C32_Witness ==
  \E x \in Ids :
    /\ Reports("main") = Ids
    /\ Reports("oopif") = {x}
    /\ Count(frames, x) = 2
    /\ getFrame(frames, x) = treeModel["main"][x]
    /\ treeModel["oopif"][x][1].oid < treeModel["main"][x][1].oid
    /\ Len(frames) = 2

\* C33. Every record has a count of at least 1.  A removal of an identity
\* whose count is 1 deletes the record, a removal of an identity with a
\* higher count lowers it by one, and a removal of an identity without a
\* record leaves it without a record (count neither 0 nor negative).
C33_CountAtLeastOne ==
  [][ /\ \A i \in 1..Len(frames') : frames'[i].count >= 1
      /\ lastCall'.op = "frameDetached"
           => LET x == lastCall'.frameId
              IN /\ Count(frames, x) <= 1 => ~Present(frames', x)
                 /\ Count(frames, x) > 1
                      => Present(frames', x) /\ Count(frames', x) = Count(frames, x) - 1
                 /\ Len(frames') = Len(frames) - (IF Count(frames, x) = 1 THEN 1 ELSE 0)
      /\ lastCall'.op = "modelRemoved"
           => \A x \in Ids :
                /\ ~Present(frames, x) => ~Present(frames', x)
                /\ Present(frames', x) => Count(frames', x) \in { Count(frames, x),
                                                                  Count(frames, x) - 1 }
                /\ ( Present(frames, x) /\ ~Present(frames', x) ) => Count(frames, x) = 1 ]_vars

\* An identity with count 1 has just been detached: its record is gone
\* rather than kept with a count of 0, while the other identity keeps its
\* count of 2.
C33_Witness ==
  \E x \in Ids :
    /\ lastCall.op = "frameDetached"
    /\ lastCall.frameId = x
    /\ emitted = << FrameRemoved(x) >>
    /\ ~Present(frames, x)
    /\ Len(frames) = 1
    /\ frames[1].count = 2

\* The frame-id set of a target in a value of framesForTarget, as a set.
FrameSet(sets, t) == Range(sets[t])

\* C34. framesForTarget has an entry for exactly the attached targets.
\* modelAdded(T) creates an empty set for T, modelRemoved(T) deletes the
\* entry of T, frameAdded and frameDetached add the identity to, or delete it
\* from, the set of the frame's own target and create or delete no entry,
\* and no call touches the set of another target; every identity in an
\* attached target's set is one the target added and has not detached.
C34_FrameSetsOfAttachedTargets ==
  [][ LET t == lastCall'.target
          x == lastCall'.frameId
          others == DOMAIN framesForTarget \ {t}
      IN /\ DOMAIN framesForTarget' = eventListeners'
         /\ \A u \in others :
              u \in DOMAIN framesForTarget' /\ framesForTarget'[u] = framesForTarget[u]
         /\ lastCall'.op = "modelAdded"
              => /\ DOMAIN framesForTarget' = DOMAIN framesForTarget \cup {t}
                 /\ framesForTarget'[t] = << >>
         /\ lastCall'.op = "modelRemoved"
              => DOMAIN framesForTarget' = DOMAIN framesForTarget \ {t}
         /\ lastCall'.op = "frameAdded"
              => /\ DOMAIN framesForTarget' = DOMAIN framesForTarget
                 /\ t \in DOMAIN framesForTarget
                      => FrameSet(framesForTarget', t) = FrameSet(framesForTarget, t) \cup {x}
         /\ lastCall'.op = "frameDetached"
              => /\ DOMAIN framesForTarget' = DOMAIN framesForTarget
                 /\ t \in DOMAIN framesForTarget
                      => FrameSet(framesForTarget', t) = FrameSet(framesForTarget, t) \ {x}
         /\ \A u \in DOMAIN framesForTarget' :
              /\ FrameSet(framesForTarget', u) \subseteq { y \in Ids : treeModel'[u][y] # Null }
              /\ Len(framesForTarget'[u]) = Cardinality(FrameSet(framesForTarget', u)) ]_vars

\* A target has been removed while the other attached target holds both
\* identities: the entry of the removed target is gone and the set of the
\* other target is as it was.
C34_Witness ==
  \E t \in Targets :
    /\ lastCall.op = "modelRemoved"
    /\ lastCall.target # t
    /\ DOMAIN framesForTarget = {t}
    /\ eventListeners = {t}
    /\ FrameSet(framesForTarget, t) = Ids
    /\ nextFrame = 3
    /\ emitted = << >>

\* C35. instance() is a lazily constructed singleton: a call constructs a
\* FrameManager when there is none or forceNew is set, and that object is
\* new and empty; otherwise the call returns the existing object and leaves
\* its state as it is.  The call returns what later calls without forceNew
\* return, and nothing but instance() changes which object that is.
C35_LazySingleton ==
  [][ /\ lastCall'.op = "instance"
           => /\ instanceReturned' = frameManagerInstance'
              /\ instanceReturned' # 0
              /\ IF frameManagerInstance = 0 \/ lastCall'.forceNew
                 THEN /\ instanceReturned' > managers
                      /\ managers' = instanceReturned'
                      /\ frames' = << >>
                      /\ topFrame' = Null
                      /\ framesForTarget' = << >>
                      /\ creationStackTraceDataForTransferringFrame' = << >>
                      /\ awaitedFrames' = << >>
                      /\ eventListeners' = {}
                 ELSE /\ instanceReturned' = frameManagerInstance
                      /\ managers' = managers
                      /\ frames' = frames
                      /\ topFrame' = topFrame
                      /\ framesForTarget' = framesForTarget
                      /\ creationStackTraceDataForTransferringFrame' =
                           creationStackTraceDataForTransferringFrame
                      /\ awaitedFrames' = awaitedFrames
                      /\ eventListeners' = eventListeners
      /\ lastCall'.op # "instance"
           => /\ frameManagerInstance' = frameManagerInstance
              /\ managers' = managers ]_vars

\* The second FrameManager, constructed by a call with forceNew, has taken
\* a frame since, and a call without forceNew has just returned it with the
\* frame still registered.
C35_Witness ==
  /\ lastCall.op = "instance"
  /\ ~lastCall.forceNew
  /\ instanceReturned = 2
  /\ frameManagerInstance = 2
  /\ managers = 2
  /\ Len(frames) = 1
  /\ frames[1].frame.oid = 2
  /\ topFrame # Null

\* The positions of a flag on the command line.
Positions(flags, flag) == { i \in 1..Len(flags) : flags[i] = flag }

\* The last position of a flag of the set, 0 when there is none.
LastOf(flags, set) ==
  IF \E i \in 1..Len(flags) : flags[i] \in set
  THEN CHOOSE i \in 1..Len(flags) :
         /\ flags[i] \in set
         /\ \A j \in (i + 1)..Len(flags) : flags[j] \notin set
  ELSE 0

\* C36. onDiff.throw is true exactly when the flags contain no 'no-throw' or
\* contain a 'throw' after the last 'no-throw'.
C36_OnDiffThrow ==
  TestConfig # Null
    => ( TestConfig[1].onDiff.throw
           <=> \/ Positions(diffBehaviors, DiffBehaviors.NoThrow) = {}
               \/ \E i \in Positions(diffBehaviors, DiffBehaviors.Throw) :
                    \A j \in Positions(diffBehaviors, DiffBehaviors.NoThrow) : j < i )

\* 'throw' is given before and after the last 'no-throw': the later one
\* counts and onDiff.throw is true.
C36_Witness ==
  /\ TestConfig # Null
  /\ diffBehaviors = << DiffBehaviors.Throw, DiffBehaviors.NoThrow, DiffBehaviors.Throw >>
  /\ TestConfig[1].onDiff.throw

\* C37. onDiff.update: the update flags that count are those after the last
\* 'no-update'.  Without any, onDiff.update is false; when the last of them
\* that is a plain 'update' has no 'update=X' after it, onDiff.update is
\* true; otherwise it is the list of the X of the 'update=X' flags after the
\* last plain 'update' (all of them when there is none), in order.
C37_OnDiffUpdate ==
  TestConfig # Null
    => LET noUpdate == LastOf(diffBehaviors, { DiffBehaviors.NoUpdate })
           effective == SubSeq(diffBehaviors, noUpdate + 1, Len(diffBehaviors))
           updates == { DiffBehaviors.Update } \cup { UpdateOnly(x) : x \in Filters }
           plain == LastOf(effective, { DiffBehaviors.Update })
           selected == SelectSeq(SubSeq(effective, plain + 1, Len(effective)),
                                 LAMBDA v : \E x \in Filters : v = UpdateOnly(x))
           xs == [ i \in 1..Len(selected) |->
                     CHOOSE x \in Filters : selected[i] = UpdateOnly(x) ]
       IN TestConfig[1].onDiff.update =
            IF \A i \in 1..Len(effective) : effective[i] \notin updates
            THEN JsBoolean(FALSE)
            ELSE IF Len(selected) = 0
                 THEN JsBoolean(TRUE)
                 ELSE JsArray(xs)

\* An 'update=a' is overruled by a later plain 'update', which a later
\* 'update=b' overrules in turn: onDiff.update is the list with b alone.
C37_Witness ==
  /\ TestConfig # Null
  /\ diffBehaviors = << UpdateOnly(<< "a" >>), DiffBehaviors.Update, UpdateOnly(<< "b" >>) >>
  /\ TestConfig[1].onDiff.update = JsArray(<< << "b" >> >>)

\* The model the app holds: the one of its last modelAdded that was about the
\* primary page target, unless that model has been removed since.
Held(app) == app.screenCaptureModel

\* A call that passes the early return of modelAdded or of modelRemoved.
Effective(call, app) ==
  \/ call.op = "modelAdded" /\ call.primaryPageTarget = Some(call.screenCaptureModel[1].target)
  \/ call.op = "modelRemoved" /\ call.screenCaptureModel = Held(app)

\* C38. ScreencastApp: the toggle button is enabled iff a ScreenCaptureModel
\* of the primary page target is held, that is, was added while its target
\* was the primary page target and has not been removed since; a screencast
\* view exists iff that model is held; removing a model other than the held
\* one changes nothing; after every toggle click and every effective
\* modelAdded or modelRemoved the button is toggled iff enabledSetting is
\* true and a screencast view exists.
C38_ScreencastButtonFollowsModel ==
  /\ [](/\ appInstance.toggleButton.enabled <=> Held(appInstance) # Null
        /\ appInstance.screencastView # Null <=> Held(appInstance) # Null
        /\ Held(appInstance) # Null
             => /\ Held(appInstance)[1] \in screenCaptureModels
                /\ appInstance.screencastView[1].screenCaptureModel = Held(appInstance)[1])
  /\ [][ /\ appCall'.op = "modelAdded"
           => IF Effective(appCall', appInstance)
              THEN Held(appInstance') = appCall'.screenCaptureModel
              ELSE appInstance' = appInstance
         /\ appCall'.op = "modelRemoved"
           => IF Effective(appCall', appInstance)
              THEN Held(appInstance') = Null
              ELSE appInstance' = appInstance
         /\ appCall'.op = "toggleButtonClicked"
           => Held(appInstance') = Held(appInstance)
         /\ (appCall'.op = "toggleButtonClicked" \/ Effective(appCall', appInstance))
           => ( appInstance'.toggleButton.toggled
                  <=> appInstance'.enabledSetting /\ appInstance'.screencastView # Null )
       ]_vars

\* The model of the primary page target is held with the setting on, and a
\* model of another target has just been removed: the button stays enabled
\* and toggled and the view stays.
C38_Witness ==
  /\ appCall.op = "modelRemoved"
  /\ Held(appInstance) # Null
  /\ appCall.screenCaptureModel # Held(appInstance)
  /\ appInstance.toggleButton.enabled
  /\ appInstance.toggleButton.toggled
  /\ appInstance.screencastView # Null

=============================================================================
